---------------------------- MODULE Spec2Model ----------------------------
(***************************************************************************)
(* A model of the xhs_scraper package: the card deduplicator, the user     *)
(* resolver, the numeral normalizers and the drivers that use them.        *)
(*                                                                         *)
(* Text is modelled as a sequence of characters.  A character is a TLA+    *)
(* string; the CJK characters of the source are named in ASCII:            *)
(*   "wan" U+4E07, "qian" U+5343, "zan" U+8D5E, "fen" U+7C89,              *)
(*   "si" U+4E1D, "guan" U+5173, "zhu" U+6CE8, "huo" U+83B7,               *)
(*   "ren" U+4EBA, "xiao" U+5C0F, "hong" U+7EA2, "shu" U+4E66,             *)
(*   "hao" U+53F7, "fwcolon" U+FF1A (the full-width colon), "nl" U+000A,   *)
(*   "fen1" U+5206, "zhong" U+949F, "shi" U+65F6, "tian" U+5929,           *)
(*   "qian2" U+524D, "zuo2" U+6628, "sao" U+626B, "ma" U+7801,             *)
(*   "you3" U+6709, "chang2" U+507F, "dian3" U+70B9, "yi4" U+6613,         *)
(*   "yang2" U+70CA, "xi3" U+73BA, "de" U+7684, "ri4" U+65E5,              *)
(*   "chang3" U+5E38; the characters of the login-wall phrases are named   *)
(*   where the phrases are listed.                                         *)
(* Python's None is the value None for text fields and NoInt for integer   *)
(* fields (an integer n is held as <<n>>).                                 *)
(***************************************************************************)
EXTENDS Integers, Sequences, FiniteSets, TLC

VARIABLES
    dd_orig,     \* _dedupe_keep_order: the argument as first passed
    dd_items,    \* the same card objects, as mutated in place by the calls
    dd_out,      \* the list returned by the latest call
    dd_prev,     \* the list returned by the call before it
    dd_calls,    \* number of calls made so far
    rs_hits0,    \* pick_user_by_xhs_id: the candidate list as passed
    rs_hits,     \* the same UserHit objects, with matched_by as set by the call
    rs_id,       \* the xhs_id argument
    rs_res,      \* the pair returned: [sel |-> oid of the user or 0, tier]
    rs_alt,      \* the pair returned for a reordering of the same candidates
    rs_perm,     \* that reordering: position i holds candidate rs_perm[i]
    rs_pc,       \* "start", "picked", "repicked"
    nm_form,     \* the numeral normalizers: how the argument is put together
    nm_s,        \* the argument itself (str | None)
    nm_cn,       \* what _parse_cn_number returned (NoInt for None)
    nm_like,     \* what _parse_like_count returned
    nm_done,     \* which of the two have been called: subset of {"cn", "like"}
    ex_pc,       \* explore scraper main: "idle", "start" (about to open the
                 \* page of a pass), "scrolling", "saved", "closed", "exit2",
                 \* "raised"
    ex_keywords, \* keywords: SEARCH_KEYWORDS stripped, the empty ones dropped
    ex_scrolls,  \* scrolls
    ex_k,        \* the pass under way: 1-based index into keywords
    ex_step,     \* scroll steps done in this pass
    ex_acc,      \* accumulated_cards of this pass
    ex_all,      \* all_cards as collected, before the final deduplication
    ex_out,      \* the list handed to save_outputs
    ex_rc,       \* the value main returned (NoInt: none)
    us_pc,       \* user program main: "idle", "start", "rejected", "profile",
                 \* "saved", "notfound", "failed"
    us_name,     \* name, as given and then as stripped
    us_xhs_id,   \* xhs_id, likewise
    us_limit,    \* args.max_users
    us_n,        \* args.posts
    us_hits,     \* hits, with matched_by as set by the resolver
    us_res,      \* (selected, matched_by) as [sel |-> oid or 0, tier]
    us_st,       \* extract_recent_posts: [posts, processed]
    us_round,    \* rounds of its loop done
    us_wheel,    \* page.mouse.wheel calls of its loop
    us_report,   \* <<payload>> once save_json has written it, else <<>>
    us_rc,       \* the value main returned (NoInt: none)
    en_pc,       \* enrich_cards_from_detail_pages: "idle", "loop", "returned"
    en_before,   \* cards as passed
    en_cards,    \* the same card objects, as mutated in place
    en_limit,    \* limit
    en_idx,      \* cards of target the loop is done with
    tn_text,     \* _parse_publish_time_from_text: the argument
    tn_out,      \* what it returned
    tn_pc,       \* "idle", "start", "done"
    xc_page,     \* extract_cards: the page it reads
    xc_fail,     \* the read that raises: [where, at, kind]
    xc_struct,   \* cards after the loop over the containers
    xc_scan,     \* whether the loop over the anchors was entered
    xc_out,      \* what it returned
    xc_pc,       \* "idle", "start", "done"
    sc_pc,       \* scheduler main: "idle", "loop" (at the top of its loop),
                 \* "scraper", "email", "sleep", "stopped" (KeyboardInterrupt
                 \* caught), "exited" (left by an exception it does not catch)
    sc_runs,     \* scraper runs started
    sc_emails,   \* email runs started
    sc_last      \* what run_task returned for the latest scraper run: "ok",
                 \* "failed"; "none" before the first

ddVars == <<dd_orig, dd_items, dd_out, dd_prev, dd_calls>>

rsVars == <<rs_hits0, rs_hits, rs_id, rs_res, rs_alt, rs_perm, rs_pc>>

nmVars == <<nm_form, nm_s, nm_cn, nm_like, nm_done>>

exVars == <<ex_pc, ex_keywords, ex_scrolls, ex_k, ex_step, ex_acc, ex_all, ex_out, ex_rc>>

usVars == <<us_pc, us_name, us_xhs_id, us_limit, us_n, us_hits, us_res, us_st, us_round, us_wheel,
           us_report, us_rc>>

enVars == <<en_pc, en_before, en_cards, en_limit, en_idx>>

tnVars == <<tn_text, tn_out, tn_pc>>

xcVars == <<xc_page, xc_fail, xc_struct, xc_scan, xc_out, xc_pc>>

scVars == <<sc_pc, sc_runs, sc_emails, sc_last>>

\* the variables of the operations that are run on their own
opVars == <<enVars, tnVars, xcVars, scVars>>

vars == <<ddVars, rsVars, nmVars, exVars, usVars, opVars>>

\* The variables of a component that a specification does not run.
DedupIdle ==
    /\ dd_orig = <<>>
    /\ dd_items = <<>>
    /\ dd_out = <<>>
    /\ dd_prev = <<>>
    /\ dd_calls = 0

ResolverIdle ==
    /\ rs_hits0 = <<>>
    /\ rs_hits = <<>>
    /\ rs_id = <<>>
    /\ rs_res = [sel |-> 0, tier |-> "none"]
    /\ rs_alt = [sel |-> 0, tier |-> "none"]
    /\ rs_perm = <<>>
    /\ rs_pc = "idle"

NumeralIdle ==
    /\ nm_form = <<>>
    /\ nm_s = <<>>
    /\ nm_cn = <<>>
    /\ nm_like = <<>>
    /\ nm_done = {}

ExploreIdle ==
    /\ ex_pc = "idle"
    /\ ex_keywords = <<>>
    /\ ex_scrolls = 0
    /\ ex_k = 0
    /\ ex_step = 0
    /\ ex_acc = <<>>
    /\ ex_all = <<>>
    /\ ex_out = <<>>
    /\ ex_rc = <<>>

UserIdle ==
    /\ us_pc = "idle"
    /\ us_name = <<>>
    /\ us_xhs_id = <<>>
    /\ us_limit = 0
    /\ us_n = 0
    /\ us_hits = <<>>
    /\ us_res = [sel |-> 0, tier |-> "none"]
    /\ us_st = [posts |-> <<>>, processed |-> {}]
    /\ us_round = 0
    /\ us_wheel = 0
    /\ us_report = <<>>
    /\ us_rc = <<>>

EnrichIdle ==
    /\ en_pc = "idle"
    /\ en_before = <<>>
    /\ en_cards = <<>>
    /\ en_limit = 0
    /\ en_idx = 0

TimeIdle ==
    /\ tn_text = <<>>
    /\ tn_out = <<>>
    /\ tn_pc = "idle"

CardsIdle ==
    /\ xc_page = <<>>
    /\ xc_fail = [where |-> "none", at |-> 0, kind |-> "none"]
    /\ xc_struct = <<>>
    /\ xc_scan = FALSE
    /\ xc_out = <<>>
    /\ xc_pc = "idle"

SchedIdle ==
    /\ sc_pc = "idle"
    /\ sc_runs = 0
    /\ sc_emails = 0
    /\ sc_last = "none"

OpsIdle == EnrichIdle /\ TimeIdle /\ CardsIdle /\ SchedIdle

-----------------------------------------------------------------------------
(* Values and text helpers *)

None == <<"None">>

NoInt == <<>>

SomeInt(n) == <<n>>

\* Python truthiness of a str | None value
Truthy(s) == s # None /\ s # <<>>

Max2(a, b) == IF a >= b THEN a ELSE b

Min2(a, b) == IF a <= b THEN a ELSE b

\* s[i:j] of Python for 0-based i <= j, as 1-based SubSeq
Slice(s, i, j) == SubSeq(s, i + 1, Min2(j, Len(s)))

\* str.find(c) for a single character: 1-based index of the first c, 0 if absent
FindFrom(s, c, i) ==
    IF \A k \in i..Len(s) : s[k] # c THEN 0
    ELSE CHOOSE k \in i..Len(s) : s[k] = c /\ \A j \in i..(k - 1) : s[j] # c

FindChar(s, c) == FindFrom(s, c, 1)

\* sub occurs in s starting at 1-based position i
MatchAt(s, sub, i) ==
    /\ i >= 1
    /\ i + Len(sub) - 1 <= Len(s)
    /\ \A k \in 1..Len(sub) : s[i + k - 1] = sub[k]

\* Python's "sub in s"
Contains(s, sub) == \E i \in 1..(Len(s) + 1) : MatchAt(s, sub, i)


Digits == {"0", "1", "2", "3", "4", "5", "6", "7", "8", "9"}

IsDigit(c) == c \in Digits

\* str.isspace / the regex class \s
IsSpace(c) == c \in {" ", "nl", "tab"}

Letters ==
    {"a", "b", "c", "d", "e", "f", "g", "h", "i", "j", "k", "l", "m", "n", "o",
     "p", "q", "r", "s", "t", "u", "v", "w", "x", "y", "z",
     "A", "B", "C", "D", "I", "P", "X"}

CJK == {"wan", "qian", "zan", "fen", "si", "guan", "zhu", "huo", "ren",
        "xiao", "hong", "shu", "hao", "fen1", "zhong", "shi", "tian", "qian2",
        "zuo2", "sao", "ma", "you3", "chang2", "dian3", "yi4", "yang2",
        "xi3", "de", "ri4", "chang3"}

\* the regex class \w on str patterns: letters of any script, digits, "_"
IsWord(c) == c \in Digits \cup Letters \cup CJK \cup {"_"}

\* str.lower() on one character
LowerChar(c) ==
    CASE c = "A" -> "a"
      [] c = "B" -> "b"
      [] c = "C" -> "c"
      [] c = "D" -> "d"
      [] c = "I" -> "i"
      [] c = "P" -> "p"
      [] c = "X" -> "x"
      [] OTHER -> c

\* str.lower()
LowerStr(s) == [i \in 1..Len(s) |-> LowerChar(s[i])]

\* str.lstrip() / str.rstrip() / str.strip()
RECURSIVE LStrip(_)
LStrip(s) == IF s # <<>> /\ IsSpace(Head(s)) THEN LStrip(Tail(s)) ELSE s

RECURSIVE RStrip(_)
RStrip(s) ==
    IF s # <<>> /\ IsSpace(s[Len(s)]) THEN RStrip(SubSeq(s, 1, Len(s) - 1)) ELSE s

Strip(s) == RStrip(LStrip(s))

\* ord(c): the code point of a character
Ord(c) ==
    CASE c = "nl" -> 10
      [] c = "tab" -> 9
      [] c = " " -> 32
      [] c = "+" -> 43
      [] c = "-" -> 45
      [] c = "." -> 46
      [] c = "/" -> 47
      [] c = "0" -> 48
      [] c = "1" -> 49
      [] c = "2" -> 50
      [] c = "3" -> 51
      [] c = "4" -> 52
      [] c = "5" -> 53
      [] c = "6" -> 54
      [] c = "7" -> 55
      [] c = "8" -> 56
      [] c = "9" -> 57
      [] c = ":" -> 58
      [] c = "?" -> 63
      [] c = "A" -> 65
      [] c = "B" -> 66
      [] c = "D" -> 68
      [] c = "I" -> 73
      [] c = "X" -> 88
      [] c = "_" -> 95
      [] c = "a" -> 97
      [] c = "b" -> 98
      [] c = "c" -> 99
      [] c = "d" -> 100
      [] c = "i" -> 105
      [] c = "n" -> 110
      [] c = "o" -> 111
      [] c = "x" -> 120
      [] c = "wan" -> 19975
      [] c = "si" -> 19997
      [] c = "ren" -> 20154
      [] c = "guan" -> 20851
      [] c = "qian" -> 21315
      [] c = "hao" -> 21495
      [] c = "xiao" -> 23567
      [] c = "zhu" -> 27880
      [] c = "fen" -> 31881
      [] c = "hong" -> 32418
      [] c = "shu" -> 20070
      [] c = "huo" -> 33719
      [] c = "zan" -> 36190
      [] c = "fwcolon" -> 65306

\* a < b for str values: by code point, a proper prefix being smaller
RECURSIVE StrLess(_, _)
StrLess(a, b) ==
    IF b = <<>> THEN FALSE
    ELSE IF a = <<>> THEN TRUE
    ELSE IF Head(a) # Head(b) THEN Ord(Head(a)) < Ord(Head(b))
    ELSE StrLess(Tail(a), Tail(b))

\* v or "" for a str | None value
OrEmpty(v) == IF Truthy(v) THEN v ELSE <<>>

-----------------------------------------------------------------------------
(* xiaohongshu_explore_scraper.py: ExploreCard and the deduplicator *)

\* An ExploreCard object; oid is the identity of the Python object.
ExploreCard(oid, keyword, url, title, author, like_text, like_count, publish_time, raw_text) ==
    [oid |-> oid, keyword |-> keyword, url |-> url, title |-> title,
     content |-> None, author |-> author, cover_url |-> None,
     like_text |-> like_text, like_count |-> like_count,
     publish_time |-> publish_time, raw_text |-> raw_text]

\* Mutant: the url is returned unchanged.
StripTrackingParams_Keep(url) ==
    IF ~Truthy(url) THEN None ELSE url

\* _strip_tracking_params: url.split("?", 1)[0], None for a falsy url
StripTrackingParams(url) ==
    IF ~Truthy(url) THEN None
    ELSE LET q == FindChar(url, "?")
         IN  IF q = 0 THEN url ELSE SubSeq(url, 1, q - 1)

\* it.url = _strip_tracking_params(it.url)
StripCard(it) == [it EXCEPT !.url = StripTrackingParams(it.url)]

\* key = it.url or ""
DedupeKey(it) == IF Truthy(it.url) THEN it.url ELSE <<>>

\* The loop of _dedupe_keep_order from position i, with the set seen and the
\* list out built so far.
RECURSIVE DedupeLoop(_, _, _, _)
DedupeLoop(items, i, seen, out) ==
    IF i > Len(items) THEN out
    ELSE LET it  == StripCard(items[i])
             key == DedupeKey(it)
         IN  IF key # <<>> /\ key \in seen
             THEN DedupeLoop(items, i + 1, seen, out)
             ELSE DedupeLoop(items, i + 1,
                             IF key # <<>> THEN seen \cup {key} ELSE seen,
                             Append(out, it))

\* _dedupe_keep_order(items): the list returned
DedupeKeepOrder(items) == DedupeLoop(items, 1, {}, <<>>)

\* The effect of _dedupe_keep_order on the objects it was given: every item
\* of the argument has had its url stripped, kept or not.
StripInPlace(heap, items) ==
    LET touched == {items[i].oid : i \in 1..Len(items)}
    IN  [i \in 1..Len(heap) |->
            IF heap[i].oid \in touched THEN StripCard(heap[i]) ELSE heap[i]]

-----------------------------------------------------------------------------
(* Specification SpecDedup: _dedupe_keep_order applied to a list, then to   *)
(* its own result.                                                          *)

MaxItems == 3

\* urls a caller can pass: null, empty, with and without a query part
UrlPool ==
    { None, <<>>, <<"a">>, <<"b">>, <<"a", "?">>, <<"a", "?", "b">>,
      <<"b", "?", "a">>, <<"?">>, <<"?", "a">> }

CardOf(i, u) == ExploreCard(i, None, u, None, None, None, NoInt, None, None)

DedupInit ==
    /\ \E n \in 0..MaxItems :
         \E us \in [1..n -> UrlPool] :
            dd_orig = [i \in 1..n |-> CardOf(i, us[i])]
    /\ dd_items = dd_orig
    /\ dd_out = <<>>
    /\ dd_prev = <<>>
    /\ dd_calls = 0
    /\ ResolverIdle
    /\ NumeralIdle
    /\ ExploreIdle
    /\ UserIdle
    /\ OpsIdle

\* out = _dedupe_keep_order(items)
DedupeFirst ==
    /\ dd_calls = 0
    /\ dd_out' = DedupeKeepOrder(dd_items)
    /\ dd_items' = StripInPlace(dd_items, dd_items)
    /\ dd_prev' = dd_prev
    /\ dd_calls' = 1
    /\ UNCHANGED <<dd_orig, rsVars, nmVars, exVars, usVars, opVars>>

\* out = _dedupe_keep_order(out)
DedupeAgain ==
    /\ dd_calls = 1
    /\ dd_prev' = dd_out
    /\ dd_out' = DedupeKeepOrder(dd_out)
    /\ dd_items' = StripInPlace(dd_items, dd_out)
    /\ dd_calls' = 2
    /\ UNCHANGED <<dd_orig, rsVars, nmVars, exVars, usVars, opVars>>

DedupNext == DedupeFirst \/ DedupeAgain

SpecDedup == DedupInit /\ [][DedupNext]_vars

-----------------------------------------------------------------------------
(* Properties of the deduplicator (SpecDedup) *)

\* The part of a url before its first "?", stated without the code's split.
BeforeQuery(u) ==
    CHOOSE p \in {SubSeq(u, 1, k) : k \in 0..Len(u)} :
        /\ \A i \in 1..Len(p) : p[i] # "?"
        /\ Len(p) = Len(u) \/ u[Len(p) + 1] = "?"

\* The identity key of a record: empty for a null or empty url.
IdentityKey(u) == IF u = None \/ u = <<>> THEN <<>> ELSE BeforeQuery(u)

OrigKey(i) == IdentityKey(dd_orig[i].url)

\* The elements of a finite set of integers in increasing order.
RECURSIVE IncSeq(_)
IncSeq(S) ==
    IF S = {} THEN <<>>
    ELSE LET m == CHOOSE x \in S : \A y \in S : x <= y
         IN  <<m>> \o IncSeq(S \ {m})

OidsOf(cards) == [k \in 1..Len(cards) |-> cards[k].oid]

FirstOfKey(i) == \A j \in 1..(i - 1) : OrigKey(j) # OrigKey(i)

\* The records the code keeps: every record whose key is empty, and the
\* first record of every non-empty key.
KeptByKey ==
    {i \in 1..Len(dd_orig) : OrigKey(i) = <<>> \/ FirstOfKey(i)}

\* C1 as stated, reading (b) as "each distinct non-empty key":
\* a record with a non-empty url and an empty key is in neither (a) nor (b).
KeptAsStatedA ==
    {i \in 1..Len(dd_orig) :
        \/ dd_orig[i].url \in {None, <<>>}
        \/ OrigKey(i) # <<>> /\ FirstOfKey(i)}

\* C1 as stated, reading (b) as "the first record of each key among the
\* records whose url is non-empty".
KeptAsStatedB ==
    {i \in 1..Len(dd_orig) :
        \/ dd_orig[i].url \in {None, <<>>}
        \/ \A j \in 1..(i - 1) :
              dd_orig[j].url \in {None, <<>>} \/ OrigKey(j) # OrigKey(i)}

\* C1 (original statement): the result of _dedupe_keep_order is exactly the
\* subsequence of (a) the records whose url is empty or null and (b) the first
\* record of each distinct non-empty url with its query part removed, in input
\* order.  Either reading of (b) is accepted.
CexC1_DedupKeepsEmptyUrlAndFirstOfKey ==
    dd_calls = 1 =>
        \/ OidsOf(dd_out) = IncSeq(KeptAsStatedA)
        \/ OidsOf(dd_out) = IncSeq(KeptAsStatedB)

\* C1 (amended): the result of _dedupe_keep_order is exactly the subsequence,
\* in input order, of (a) every record whose url is null, empty or empty once
\* everything from the first "?" onward is removed, and (b) the first record
\* of each distinct non-empty url with everything from the first "?" removed.
ThmC1_DedupKeepsEmptyKeyAndFirstOfKey ==
    dd_calls = 1 => OidsOf(dd_out) = IncSeq(KeptByKey)

\* C1 witness: a call has dropped a later record of a key, kept the record of
\* an empty url and kept a record whose url is only a query part.
WitC1_DuplicateDroppedEmptyKept ==
    /\ dd_calls = 1
    /\ Len(dd_out) < Len(dd_orig)
    /\ \E i \in 1..Len(dd_orig) :
          /\ dd_orig[i].url = <<"?", "a">>
          /\ \E k \in 1..Len(dd_out) : dd_out[k].oid = i
    /\ \E i, j \in 1..Len(dd_orig) :
          i < j /\ OrigKey(i) = OrigKey(j) /\ OrigKey(i) # <<>>
                /\ dd_orig[i].url # dd_orig[j].url

\* C2: deduplication is idempotent: applying _dedupe_keep_order to its own
\* result returns the same records with the same field values.
CexC2_DedupIdempotent ==
    dd_calls = 2 => dd_out = dd_prev

-----------------------------------------------------------------------------
(* xhs_top_user_recent_posts.py: UserHit and the user resolver *)

\* matched_by = None
NoTier == "None"

\* A UserHit object as extract_user_hits builds it; oid is the identity of
\* the Python object.
UserHit(oid, username, profile_url, fans_text, fans_count, raw_text) ==
    [oid |-> oid, query |-> <<"q">>, username |-> username,
     profile_url |-> profile_url, fans_text |-> fans_text,
     fans_count |-> fans_count, matched_by |-> NoTier, raw_text |-> raw_text]

\* x.fans_count or -1
FansKey(h) ==
    IF h.fans_count = NoInt \/ h.fans_count = SomeInt(0) THEN -1
    ELSE h.fans_count[1]

\* key=lambda x: (x.fans_count or -1, x.username or "")
SortKey(h) == <<FansKey(h), OrEmpty(h.username)>>

\* k1 < k2 for the key tuples
KeyLess(k1, k2) ==
    \/ k1[1] < k2[1]
    \/ k1[1] = k2[1] /\ StrLess(k1[2], k2[2])

\* sorted(..., reverse=True) is stable: x goes after every element whose key
\* is not smaller than its own.
RECURSIVE InsertDesc(_, _)
InsertDesc(sorted, x) ==
    IF sorted = <<>> THEN <<x>>
    ELSE IF KeyLess(SortKey(Head(sorted)), SortKey(x)) THEN <<x>> \o sorted
    ELSE <<Head(sorted)>> \o InsertDesc(Tail(sorted), x)

RECURSIVE SortedDesc(_)
SortedDesc(hits) ==
    IF hits = <<>> THEN <<>>
    ELSE InsertDesc(SortedDesc(SubSeq(hits, 1, Len(hits) - 1)), hits[Len(hits)])

\* Mutant: the first candidate of the list.
PickTopFansUser_First(hits) ==
    IF hits = <<>> THEN 0 ELSE hits[1].oid

\* pick_top_fans_user: the oid of the user returned, 0 for None
PickTopFansUser(hits) ==
    IF hits = <<>> THEN 0 ELSE SortedDesc(hits)[1].oid

\* \b between positions p and p + 1 of t (p in 0..Len(t))
WordAt(t, k) == k >= 1 /\ k <= Len(t) /\ IsWord(t[k])

WordBoundary(t, p) == WordAt(t, p) # WordAt(t, p + 1)

\* The length of the longest run of \s characters starting at position j.
RECURSIVE SpaceRun(_, _)
SpaceRun(t, j) ==
    IF j >= 1 /\ j <= Len(t) /\ IsSpace(t[j]) THEN 1 + SpaceRun(t, j + 1) ELSE 0

\* \s*[:：]?\s* <id> \b  matches at position j: each \s* takes some part of
\* the run of white space it stands at (the regex engine backtracks over
\* every such split), the colon is taken or not.
IdTailAt(t, j, id) ==
    \E a \in 0..SpaceRun(t, j) : \E c \in {0, 1} :
        /\ c = 1 => (j + a <= Len(t) /\ t[j + a] \in {":", "fwcolon"})
        /\ \E b \in 0..SpaceRun(t, j + a + c) :
              /\ MatchAt(t, id, j + a + c + b)
              /\ WordBoundary(t, j + a + c + b + Len(id) - 1)

\* re.compile(r"<xiao hong shu hao>\s*[:]?\s*" + re.escape(id) + r"\b").search(t)
IdPattern1(t, id) ==
    \E i \in 1..Len(t) :
        /\ MatchAt(t, <<"xiao", "hong", "shu", "hao">>, i)
        /\ IdTailAt(t, i + 4, id)

\* re.compile(r"<xiao hong shu>\s*id\s*[:]?\s*" + re.escape(id) + r"\b").search(t)
IdPattern2(t, id) ==
    \E i \in 1..Len(t) :
        /\ MatchAt(t, <<"xiao", "hong", "shu">>, i)
        /\ \E a \in 0..SpaceRun(t, i + 3) :
              /\ MatchAt(t, <<"i", "d">>, i + 3 + a)
              /\ IdTailAt(t, i + 3 + a + 2, id)

\* re.compile(r"\bid\s*[:]?\s*" + re.escape(id) + r"\b").search(t)
IdPattern3(t, id) ==
    \E i \in 1..Len(t) :
        /\ MatchAt(t, <<"i", "d">>, i)
        /\ WordBoundary(t, i - 1)
        /\ IdTailAt(t, i + 2, id)

\* Mutant: the identifier anywhere in the raw text.
IdMatches_Literal(h, id) ==
    LET t == LowerStr(Strip(OrEmpty(h.raw_text)))
    IN  t # <<>> /\ Contains(t, id)

\* The test of the first loop of pick_user_by_xhs_id for one hit.
IdMatches(h, id) ==
    LET t == LowerStr(Strip(OrEmpty(h.raw_text)))
    IN  /\ t # <<>>
        /\ IdPattern1(t, id) \/ IdPattern2(t, id) \/ IdPattern3(t, id)

\* (h.username or "").strip().lower()
NormName(h) == LowerStr(Strip(OrEmpty(h.username)))

\* The index of the first element of the list in S (S not empty).
FirstIn(S) == CHOOSE i \in S : \A j \in S : i <= j

\* [h for h in hits if i in S], in list order
RECURSIVE Filter(_, _, _)
Filter(hits, S, i) ==
    IF i > Len(hits) THEN <<>>
    ELSE (IF i \in S THEN <<hits[i]>> ELSE <<>>) \o Filter(hits, S, i + 1)

\* Mutant: the fan count is looked at before the name tiers.
PickUserByXhsId_FansFirst(hits, xhs_id) ==
    LET idn == LowerStr(Strip(OrEmpty(xhs_id)))
    IN  IF idn = <<>> \/ hits = <<>> THEN [sel |-> 0, tier |-> "none"]
        ELSE [sel |-> PickTopFansUser(hits), tier |-> "top_fans"]

\* pick_user_by_xhs_id: the pair (user, matched_by), the user by its oid
PickUserByXhsId(hits, xhs_id) ==
    LET idn      == LowerStr(Strip(OrEmpty(xhs_id)))
        byId     == {i \in 1..Len(hits) : IdMatches(hits[i], idn)}
        byName   == {i \in 1..Len(hits) : NormName(hits[i]) = idn}
        contains == {i \in 1..Len(hits) : Contains(NormName(hits[i]), idn)}
    IN  IF idn = <<>> THEN [sel |-> 0, tier |-> "none"]
        ELSE IF byId # {} THEN [sel |-> hits[FirstIn(byId)].oid, tier |-> "xhs_id"]
        ELSE IF byName # {} THEN [sel |-> hits[FirstIn(byName)].oid, tier |-> "exact"]
        ELSE IF contains # {}
             THEN [sel |-> PickTopFansUser(Filter(hits, contains, 1)),
                   tier |-> "contains"]
        ELSE IF hits # <<>>
             THEN [sel |-> PickTopFansUser(hits), tier |-> "top_fans"]
        ELSE [sel |-> 0, tier |-> "none"]

\* Mutant: the tier is written on every candidate.
SetMatchedBy_All(hits, res) ==
    [i \in 1..Len(hits) |->
        IF res.sel # 0 THEN [hits[i] EXCEPT !.matched_by = res.tier] ELSE hits[i]]

\* h.matched_by = tier on the user returned
SetMatchedBy(hits, res) ==
    [i \in 1..Len(hits) |->
        IF hits[i].oid = res.sel THEN [hits[i] EXCEPT !.matched_by = res.tier]
        ELSE hits[i]]

-----------------------------------------------------------------------------
(* Specification SpecResolver: pick_user_by_xhs_id on a candidate list, and  *)
(* on the same candidates in another order.                                  *)

MaxHits == 3

S_anna == <<"a", "n", "n", "a">>

S_bob == <<"b", "o", "b">>

\* (username, fans_count, raw_text) of the candidates
HitPool ==
    { <<S_anna, SomeInt(5), <<"9">> >>,
      <<S_bob, SomeInt(5), None>>,
      <<<<"a", "b", "c">>, SomeInt(0), None>>,
      <<<<"c">>, NoInt, None>>,
      <<None, SomeInt(0), <<"xiao", "hong", "shu", "hao", "fwcolon", "9">> >>,
      <<<<"A", "b", " ">>, NoInt, <<"i", "d", ":", "9", "x">> >>,
      <<<<"x">>, SomeInt(9), <<"x", "nl", "xiao", "hong", "shu", " ", "I", "D", " ", "9", "nl">> >>,
      <<<<"b">>, SomeInt(0), <<"shu", "i", "d", "9">> >> }

IdPool == { <<"9">>, <<"b">>, <<" ", "A", "B">>, <<"n">>, <<" ">>, <<>> }

ProfileUrl(i) == <<"/", "u", "/">> \o <<CHOOSE d \in Digits : Ord(d) = 48 + i>>

HitOf(i, c) == UserHit(i, c[1], ProfileUrl(i), None, c[2], c[3])

Reorderings(n) == {f \in [1..n -> 1..n] : \A i, j \in 1..n : f[i] = f[j] => i = j}

ResolverInit ==
    /\ \E n \in 0..MaxHits :
         \E cs \in [1..n -> HitPool] :
            rs_hits0 = [i \in 1..n |-> HitOf(i, cs[i])]
    /\ rs_hits = rs_hits0
    /\ rs_id \in IdPool
    /\ rs_res = [sel |-> 0, tier |-> "none"]
    /\ rs_alt = [sel |-> 0, tier |-> "none"]
    /\ rs_perm = <<>>
    /\ rs_pc = "start"
    /\ DedupIdle
    /\ NumeralIdle
    /\ ExploreIdle
    /\ UserIdle
    /\ OpsIdle

\* selected, matched_by = pick_user_by_xhs_id(hits, xhs_id)
PickUser ==
    /\ rs_pc = "start"
    /\ rs_res' = PickUserByXhsId(rs_hits, rs_id)
    /\ rs_hits' = SetMatchedBy(rs_hits, rs_res')
    /\ rs_pc' = "picked"
    /\ UNCHANGED <<rs_hits0, rs_id, rs_alt, rs_perm, ddVars, nmVars, exVars, usVars, opVars>>

\* pick_user_by_xhs_id on fresh copies of the candidates in another order
PickReordered ==
    /\ rs_pc = "picked"
    /\ \E f \in Reorderings(Len(rs_hits0)) :
          /\ rs_perm' = f
          /\ rs_alt' = PickUserByXhsId([i \in 1..Len(rs_hits0) |-> rs_hits0[f[i]]], rs_id)
    /\ rs_pc' = "repicked"
    /\ UNCHANGED <<rs_hits0, rs_hits, rs_id, rs_res, ddVars, nmVars, exVars, usVars, opVars>>

ResolverNext == PickUser \/ PickReordered

SpecResolver == ResolverInit /\ [][ResolverNext]_vars

-----------------------------------------------------------------------------
(* Properties of the user resolver (SpecResolver).  The tiers id_exact,     *)
(* name_exact, name_contains, top_fans and none of the specification are    *)
(* the values "xhs_id", "exact", "contains", "top_fans" and "none" that the *)
(* code returns.                                                            *)

\* the identifier as the resolver compares it
IdNorm == LowerStr(Strip(rs_id))

Cands == 1..Len(rs_hits0)

ById == {i \in Cands : IdMatches(rs_hits0[i], IdNorm)}

ByName == {i \in Cands : NormName(rs_hits0[i]) = IdNorm}

ByContains == {i \in Cands : Contains(NormName(rs_hits0[i]), IdNorm)}

\* the candidates among which the fan count decides, per tier
Eligible ==
    IF rs_res.tier = "contains" THEN ByContains
    ELSE IF rs_res.tier = "top_fans" THEN Cands
    ELSE {}

\* a fan count with null counted as -1
FansOrMinus1(h) == IF h.fans_count = NoInt THEN -1 ELSE h.fans_count[1]

Picked == rs_pc = "picked" /\ IdNorm # <<>>

\* C4: the tiers are applied in strict precedence over the whole list: when
\* some candidate matches the id tier one of them is returned with tier id;
\* otherwise, when some candidate's name equals the identifier one of them is
\* returned with tier exact; otherwise, when some name contains it one of
\* them is returned with tier contains; otherwise the tier is top_fans.
ThmC4_TierPrecedence ==
    Picked =>
        /\ ById # {} => rs_res.tier = "xhs_id" /\ rs_res.sel \in ById
        /\ (ById = {} /\ ByName # {}) =>
              rs_res.tier = "exact" /\ rs_res.sel \in ByName
        /\ (ById = {} /\ ByName = {} /\ ByContains # {}) =>
              rs_res.tier = "contains" /\ rs_res.sel \in ByContains
        /\ (ById = {} /\ ByName = {} /\ ByContains = {} /\ Cands # {}) =>
              rs_res.tier = "top_fans" /\ rs_res.sel \in Cands

\* C4 witness: the last of three candidates is returned by the id tier
\* although an earlier candidate that misses the id tier has more fans.
WitC4_IdMatchLastBeatsMoreFans ==
    /\ Picked
    /\ Len(rs_hits0) = 3
    /\ rs_res = [sel |-> 3, tier |-> "xhs_id"]
    /\ \E j \in 1..2 :
          /\ j \notin ById
          /\ FansOrMinus1(rs_hits0[j]) > FansOrMinus1(rs_hits0[3])

SameChoice == rs_alt.sel = rs_res.sel /\ rs_alt.tier = rs_res.tier

\* C6 (original statement): every reordering of the candidate list makes
\* pick_user_by_xhs_id return the same candidate and the same tier.
CexC6_OrderIndependent ==
    rs_pc = "repicked" => SameChoice

\* No other candidate is as good as the selected one in the deciding tier.
UniqueBest ==
    CASE rs_res.tier = "xhs_id" -> Cardinality(ById) = 1
      [] rs_res.tier = "exact" -> Cardinality(ByName) = 1
      [] rs_res.tier \in {"contains", "top_fans"} ->
            \A c \in Eligible \ {rs_res.sel} :
                \/ FansKey(rs_hits0[c]) # FansKey(rs_hits0[rs_res.sel])
                \/ OrEmpty(rs_hits0[c].username) # OrEmpty(rs_hits0[rs_res.sel].username)
      [] OTHER -> TRUE

\* C6 (amended): the returned tier is the same for every reordering of the
\* candidate list, and so is the returned candidate provided no other
\* candidate is as good in the deciding tier: only one candidate matches in
\* the id and exact tiers, and in the contains and top_fans tiers no other
\* eligible candidate has both the same fan count (null and 0 alike) and the
\* same username as the selected one.
ThmC6_OrderIndependentWhenUniqueBest ==
    rs_pc = "repicked" =>
        /\ rs_alt.tier = rs_res.tier
        /\ UniqueBest => rs_alt.sel = rs_res.sel

\* C6 witness: three candidates in reversed order, the fan count deciding
\* between several eligible ones, and the same candidate returned.
WitC6_ReversedSameChoice ==
    /\ rs_pc = "repicked"
    /\ rs_perm = <<3, 2, 1>>
    /\ rs_res.tier = "contains"
    /\ Cardinality(Eligible) >= 2
    /\ rs_res.sel = 3
    /\ UniqueBest
    /\ SameChoice

\* C7: in the contains and top_fans tiers no eligible candidate has a
\* strictly greater fan count than the selected one, null counting as -1.
CexC7_SelectedHasMostFans ==
    (Picked /\ rs_res.tier \in {"contains", "top_fans"}) =>
        \A c \in Eligible :
            FansOrMinus1(rs_hits0[c]) <= FansOrMinus1(rs_hits0[rs_res.sel])

\* the chars of g are white space but for at most one colon: \s*[:]?\s*
LabelGap(g) ==
    /\ \A k \in 1..Len(g) : IsSpace(g[k]) \/ g[k] \in {":", "fwcolon"}
    /\ Cardinality({k \in 1..Len(g) : g[k] \in {":", "fwcolon"}}) <= 1

AllSpaces(g) == \A k \in 1..Len(g) : IsSpace(g[k])

NotWord(t, k) == k < 1 \/ k > Len(t) \/ ~IsWord(t[k])

\* t holds the identifier as a labelled field: a label from position i, a gap
\* of white space and at most one colon, then the identifier from position k,
\* ending at a word boundary.
LabelledIdIn(t, id) ==
    \E i \in 1..Len(t) : \E k \in (i + 1)..Len(t) :
        /\ MatchAt(t, id, k)
        /\ IsWord(id[Len(id)]) = NotWord(t, k + Len(id))
        /\ \/ /\ MatchAt(t, <<"xiao", "hong", "shu", "hao">>, i)
              /\ k >= i + 4
              /\ LabelGap(SubSeq(t, i + 4, k - 1))
           \/ /\ MatchAt(t, <<"xiao", "hong", "shu">>, i)
              /\ \E j \in (i + 3)..(k - 2) :
                    /\ AllSpaces(SubSeq(t, i + 3, j - 1))
                    /\ MatchAt(t, <<"i", "d">>, j)
                    /\ LabelGap(SubSeq(t, j + 2, k - 1))
           \/ /\ NotWord(t, i - 1)
              /\ MatchAt(t, <<"i", "d">>, i)
              /\ k >= i + 2
              /\ LabelGap(SubSeq(t, i + 2, k - 1))

RawNorm(h) == LowerStr(Strip(OrEmpty(h.raw_text)))

\* C8 (original statement): whenever the identifier occurs literally in the
\* raw text of some candidate, the resolver returns the id tier.
CexC8_IdLiteralInRawText ==
    (Picked /\ \E c \in Cands : Contains(RawNorm(rs_hits0[c]), IdNorm)) =>
        rs_res.tier = "xhs_id"

\* C8 (amended): a candidate matches the id tier when its raw text holds the
\* identifier as a labelled field; the resolver returns the id tier, with
\* such a candidate, exactly when some candidate's raw text does.
ThmC8_IdLabelledInRawText ==
    Picked =>
        /\ rs_res.tier = "xhs_id" <=>
              \E c \in Cands : LabelledIdIn(RawNorm(rs_hits0[c]), IdNorm)
        /\ rs_res.tier = "xhs_id" =>
              LabelledIdIn(RawNorm(rs_hits0[rs_res.sel]), IdNorm)

\* C8 witness: the id tier selects a candidate whose text has the label with
\* "ID" in capitals, past a candidate whose text is the bare identifier.
WitC8_LabelledBeatsBare ==
    /\ Picked
    /\ rs_res.tier = "xhs_id"
    /\ \E c \in 1..(rs_res.sel - 1) : rs_hits0[c].raw_text = <<"9">>
    /\ Contains(rs_hits0[rs_res.sel].raw_text, <<"I", "D">>)

-----------------------------------------------------------------------------
(* Python float: IEEE 754 binary64, round to nearest, ties to even.  A      *)
(* positive double is [m |-> its 53 significand bits from the most          *)
(* significant (which is 1), e |-> the exponent of that bit]: its value is   *)
(* the sum of m[i] * 2^(e - i + 1).  Zero is [m |-> <<>>, e |-> 0].  The     *)
(* significand is kept as bits because 53 bits do not fit a machine         *)
(* integer of the checker; the bits are computed LimbBits at a time from    *)
(* numbers below 2^31, for decimals of at most four fraction digits and     *)
(* factors of at most 10000.                                                *)

Precision == 53

LimbBits == 16

DoubleZero == [m |-> <<>>, e |-> 0]

Pow10(k) == 10 ^ k

Pow2(k) == 2 ^ k

\* the bits of n from the most significant, <<>> for 0 (n < 2^30)
BitsOf(n) ==
    IF n = 0 THEN <<>>
    ELSE LET len == CHOOSE k \in 1..30 : n \div Pow2(k - 1) = 1
         IN  [i \in 1..len |-> (n \div Pow2(len - i)) % 2]

\* the low w bits of n, from the most significant
LowBits(n, w) == [i \in 1..w |-> (n \div Pow2(w - i)) % 2]

\* the number a bit sequence stands for (Len(b) <= 30)
RECURSIVE BitsValue(_)
BitsValue(b) ==
    IF b = <<>> THEN 0 ELSE 2 * BitsValue(SubSeq(b, 1, Len(b) - 1)) + b[Len(b)]

\* b + 1 on a bit sequence, keeping its length; all ones wrap to all zeros
BitsInc(b) ==
    LET zeros == {i \in 1..Len(b) : b[i] = 0}
        z     == IF zeros = {} THEN 0 ELSE CHOOSE i \in zeros : \A j \in zeros : j <= i
    IN  [i \in 1..Len(b) |-> IF i < z THEN b[i] ELSE IF i = z THEN 1 ELSE 0]

\* A significand of Precision bits rounded up by one unit in the last place.
RoundUp(bits, ex) ==
    LET inc == BitsInc(bits)
    IN  IF inc[1] = 0 THEN [m |-> <<1>> \o SubSeq(inc, 1, Len(inc) - 1), e |-> ex + 1]
        ELSE [m |-> inc, e |-> ex]

\* What is left of r / d (0 <= r < d < 2^15) after its first n binary digits,
\* scaled back to 0..d-1: (r * 2^n) mod d, LimbBits digits at a time.
RECURSIVE FracRem(_, _, _)
FracRem(r, d, n) ==
    IF n <= LimbBits THEN (r * Pow2(n)) % d
    ELSE FracRem((r * Pow2(LimbBits)) % d, d, n - LimbBits)

\* the first n binary digits of r / d, LimbBits digits at a time
RECURSIVE FracBits(_, _, _)
FracBits(r, d, n) ==
    IF n <= LimbBits THEN LowBits((r * Pow2(n)) \div d, n)
    ELSE LowBits((r * Pow2(LimbBits)) \div d, LimbBits)
           \o FracBits((r * Pow2(LimbBits)) % d, d, n - LimbBits)

\* the number of zero binary digits before the first one of r / d (0 < r < d)
LeadingZeros(r, d) == CHOOSE z \in 0..(LimbBits - 1) : (r * Pow2(z + 1)) \div d = 1

\* float("<n> / <d>"): the double nearest to n / d, ties to even
NearestDouble(n, d) ==
    IF n = 0 THEN DoubleZero
    ELSE LET q    == n \div d
             r    == n % d
             skip == IF q > 0 THEN 0 ELSE LeadingZeros(r, d)
             ex   == IF q > 0 THEN Len(BitsOf(q)) - 1 ELSE -(skip + 1)
             more == Precision - Len(BitsOf(q))
             sig  == BitsOf(q) \o FracBits(FracRem(r, d, skip), d, more)
             left == FracRem(r, d, skip + more)
             up   == \/ 2 * left > d
                     \/ 2 * left = d /\ sig[Precision] = 1
         IN  IF up THEN RoundUp(sig, ex) ELSE [m |-> sig, e |-> ex]

\* The bits of b * k for a significand b and a factor k <= 10000: b is cut
\* from its low end into limbs of LimbBits bits, each limb times k plus the
\* carry of the limb below stays under 2^31.
MulBits(b, k) ==
    LET l0 == BitsValue(SubSeq(b, Precision - LimbBits + 1, Precision))
        l1 == BitsValue(SubSeq(b, Precision - 2 * LimbBits + 1, Precision - LimbBits))
        l2 == BitsValue(SubSeq(b, Precision - 3 * LimbBits + 1, Precision - 2 * LimbBits))
        l3 == BitsValue(SubSeq(b, 1, Precision - 3 * LimbBits))
        base == Pow2(LimbBits)
        t0 == l0 * k
        t1 == l1 * k + t0 \div base
        t2 == l2 * k + t1 \div base
        t3 == l3 * k + t2 \div base
    IN  BitsOf(t3) \o LowBits(t2 % base, LimbBits) \o LowBits(t1 % base, LimbBits)
                   \o LowBits(t0 % base, LimbBits)

\* x * k in double arithmetic for an integer k in 1..10000: the exact
\* product rounded to Precision bits, ties to even.
DoubleTimes(x, k) ==
    IF x = DoubleZero THEN DoubleZero
    ELSE LET p    == MulBits(x.m, k)
             pe   == x.e + Len(p) - Precision
             kept == SubSeq(p, 1, Precision)
             rest == SubSeq(p, Precision + 1, Len(p))
             half == rest # <<>> /\ rest[1] = 1
             more == \E j \in 2..Len(rest) : rest[j] = 1
             up   == half /\ (more \/ kept[Precision] = 1)
         IN  IF up THEN RoundUp(kept, pe) ELSE [m |-> kept, e |-> pe]

\* int(x): the double truncated toward zero (x < 2^30)
DoubleToInt(x) ==
    IF x = DoubleZero \/ x.e < 0 THEN 0
    ELSE BitsValue(SubSeq(x.m, 1, x.e + 1))

-----------------------------------------------------------------------------
(* The numeral normalizers: _parse_cn_number and _parse_like_count *)

\* the number a run of decimal digits stands for
RECURSIVE DigitsValue(_)
DigitsValue(ds) ==
    IF ds = <<>> THEN 0
    ELSE 10 * DigitsValue(SubSeq(ds, 1, Len(ds) - 1)) + (Ord(ds[Len(ds)]) - 48)

\* the length of the run of digits starting at position i
RECURSIVE DigitRun(_, _)
DigitRun(t, i) ==
    IF i >= 1 /\ i <= Len(t) /\ IsDigit(t[i]) THEN 1 + DigitRun(t, i + 1) ELSE 0

\* the position of the first digit of t, 0 if there is none
RECURSIVE FirstDigit(_, _)
FirstDigit(t, i) ==
    IF i > Len(t) THEN 0
    ELSE IF IsDigit(t[i]) THEN i
    ELSE FirstDigit(t, i + 1)

\* re.search(r"(\d+(?:\.\d+)?)(<wan>|<qian>)?", t): the leftmost match, every
\* part taken greedily.  NoMatch, or the integer digits, the fraction digits
\* and the unit ("" when group 2 is None).
NoMatch == [found |-> FALSE, ip |-> <<>>, fp |-> <<>>, unit |-> ""]

NumberSearch(t) ==
    LET i == FirstDigit(t, 1)
    IN  IF i = 0 THEN NoMatch
        ELSE LET n1 == DigitRun(t, i)
                 j  == i + n1
                 n2 == IF j <= Len(t) /\ t[j] = "." THEN DigitRun(t, j + 1) ELSE 0
                 k  == IF n2 > 0 THEN j + 1 + n2 ELSE j
             IN  [found |-> TRUE,
                  ip |-> SubSeq(t, i, j - 1),
                  fp |-> IF n2 > 0 THEN SubSeq(t, j + 1, j + n2) ELSE <<>>,
                  unit |-> IF k <= Len(t) /\ t[k] \in {"wan", "qian"} THEN t[k] ELSE ""]

\* num = float(m.group(1))
FloatOf(mt) == NearestDouble(DigitsValue(mt.ip \o mt.fp), Pow10(Len(mt.fp)))

\* The tail of both normalizers: int(num * 10_000), int(num * 1_000) or
\* int(num), by the unit.
NumberOf(mt) ==
    IF mt.unit = "wan" THEN SomeInt(DoubleToInt(DoubleTimes(FloatOf(mt), 10000)))
    ELSE IF mt.unit = "qian" THEN SomeInt(DoubleToInt(DoubleTimes(FloatOf(mt), 1000)))
    ELSE SomeInt(DoubleToInt(FloatOf(mt)))

\* re.sub(r"<fen si>|<guan zhu>|<huo zan>|<zan>|<ren>|\+", "", t)
RECURSIVE RemoveLabels(_)
RemoveLabels(t) ==
    IF t = <<>> THEN <<>>
    ELSE IF \/ MatchAt(t, <<"fen", "si">>, 1)
            \/ MatchAt(t, <<"guan", "zhu">>, 1)
            \/ MatchAt(t, <<"huo", "zan">>, 1)
         THEN RemoveLabels(SubSeq(t, 3, Len(t)))
    ELSE IF Head(t) \in {"zan", "ren", "+"} THEN RemoveLabels(Tail(t))
    ELSE <<Head(t)>> \o RemoveLabels(Tail(t))

\* _parse_cn_number(s)
ParseCnNumber(s) ==
    IF ~Truthy(s) THEN NoInt
    ELSE IF Strip(s) = <<>> THEN NoInt
    ELSE LET found == NumberSearch(Strip(RemoveLabels(Strip(s))))
         IN  IF ~found.found THEN NoInt ELSE NumberOf(found)

\* _parse_like_count(like_text)
ParseLikeCount(like_text) ==
    IF ~Truthy(like_text) THEN NoInt
    ELSE IF Strip(like_text) = <<>> THEN NoInt
    ELSE LET found == NumberSearch(Strip(like_text))
         IN  IF ~found.found THEN NoInt ELSE NumberOf(found)

\* The count strings tried: labels, a decimal number, something between the
\* number and its unit, a unit, a tail; and some strings without a number.
MaxIntDigits == 1

MaxFracDigits == 2

DigitStrings(S, lo, hi) == UNION {[1..k -> S] : k \in lo..hi}

CountForms ==
    [prefix : {<<>>, <<"fen", "si", " ">>},
     ip     : DigitStrings({"0", "1", "2", "9"}, 1, MaxIntDigits),
     fp     : DigitStrings({"0", "1", "5"}, 0, MaxFracDigits),
     gap    : {<<>>, <<" ">>, <<"zan">>, <<"+">>},
     unit   : {"", "wan", "qian"},
     suffix : {<<>>, <<"+">>}]

Render(f) ==
    f.prefix \o f.ip \o (IF f.fp = <<>> THEN <<>> ELSE <<".">> \o f.fp)
             \o f.gap \o (IF f.unit = "" THEN <<>> ELSE <<f.unit>>) \o f.suffix

NoNumber == {None, <<>>, <<" ">>, <<"zan">>, <<"wan">>, <<"+">>, <<"fen", "si">>}

NumeralInit ==
    /\ \/ \E f \in CountForms : nm_form = f /\ nm_s = Render(f)
       \/ nm_form = <<>> /\ nm_s \in NoNumber
    /\ nm_cn = NoInt
    /\ nm_like = NoInt
    /\ nm_done = {}
    /\ DedupIdle
    /\ ResolverIdle
    /\ ExploreIdle
    /\ UserIdle
    /\ OpsIdle

\* fans_count = _parse_cn_number(fans_text)
CallParseCnNumber ==
    /\ "cn" \notin nm_done
    /\ nm_cn' = ParseCnNumber(nm_s)
    /\ nm_done' = nm_done \cup {"cn"}
    /\ UNCHANGED <<nm_form, nm_s, nm_like, ddVars, rsVars, exVars, usVars, opVars>>

\* like_count = _parse_like_count(like_text)
CallParseLikeCount ==
    /\ "like" \notin nm_done
    /\ nm_like' = ParseLikeCount(nm_s)
    /\ nm_done' = nm_done \cup {"like"}
    /\ UNCHANGED <<nm_form, nm_s, nm_cn, ddVars, rsVars, exVars, usVars, opVars>>

NumeralNext == CallParseCnNumber \/ CallParseLikeCount

SpecNumeral == NumeralInit /\ [][NumeralNext]_vars

-----------------------------------------------------------------------------
(* Properties of the numeral normalizers *)

\* a string of the numeral grammar: labels, number, unit, trailing '+'
InGrammar == nm_form # <<>> /\ nm_form.gap = <<>>

UnitMultiplier(u) == IF u = "wan" THEN 10000 ELSE IF u = "qian" THEN 1000 ELSE 1

\* the number times the unit multiplier, truncated toward zero
ExactCount(f) ==
    (DigitsValue(f.ip \o f.fp) * UnitMultiplier(f.unit)) \div Pow10(Len(f.fp))

\* C10 as stated: for every count string of the numeral grammar both
\* normalizers return the number times the unit multiplier truncated toward
\* zero, and null when the string holds no numeric token.
CexC10_NumeralExact ==
    /\ "cn" \in nm_done =>
          /\ InGrammar => nm_cn = SomeInt(ExactCount(nm_form))
          /\ nm_form = <<>> => nm_cn = NoInt
    /\ "like" \in nm_done =>
          /\ InGrammar => nm_like = SomeInt(ExactCount(nm_form))
          /\ nm_form = <<>> => nm_like = NoInt

-----------------------------------------------------------------------------
(* xiaohongshu_explore_scraper.py: urls, card text and extract_cards *)

\* "".join of a list of strings
RECURSIVE Concat(_)
Concat(ss) == IF ss = <<>> THEN <<>> ELSE Head(ss) \o Concat(Tail(ss))

\* sep.join(ss)
RECURSIVE Join(_, _)
Join(ss, sep) ==
    IF ss = <<>> THEN <<>>
    ELSE IF Len(ss) = 1 THEN ss[1]
    ELSE ss[1] \o sep \o Join(Tail(ss), sep)

\* s.split(c) for a single character c
RECURSIVE SplitOn(_, _)
SplitOn(s, c) ==
    IF FindChar(s, c) = 0 THEN <<s>>
    ELSE <<SubSeq(s, 1, FindChar(s, c) - 1)>>
           \o SplitOn(SubSeq(s, FindChar(s, c) + 1, Len(s)), c)

\* [f(x) for x in ss] with f = str.strip
StripAll(ss) == [i \in 1..Len(ss) |-> Strip(ss[i])]

\* [ln.strip() for ln in text.split("\n") if ln.strip()]
Lines(text) == SelectSeq(StripAll(SplitOn(text, "nl")), LAMBDA ln : ln # <<>>)

StartsWith(s, prefix) == MatchAt(s, prefix, 1)

XHS_BASE_URL ==
    <<"h", "t", "t", "p", "s", ":", "/", "/", "w", "w", "w", ".", "x", "i", "a",
      "o", "h", "o", "n", "g", "s", "h", "u", ".", "c", "o", "m">>

ExplorePath == <<"/", "e", "x", "p", "l", "o", "r", "e">>

\* _normalize_url (the same function in both programs)
NormalizeUrl(href) ==
    IF ~Truthy(href) THEN None
    ELSE IF Strip(href) = <<>> THEN None
    ELSE IF StartsWith(Strip(href), <<"/", "/">>) THEN <<"h", "t", "t", "p", "s", ":">> \o Strip(href)
    ELSE IF StartsWith(Strip(href), <<"/">>) THEN XHS_BASE_URL \o Strip(href)
    ELSE Strip(href)

\* the regex class [0-9a-fA-F]
IsHex(c) ==
    c \in Digits \cup {"a", "b", "c", "d", "e", "f", "A", "B", "C", "D", "E", "F"}

NoteIdMin == 10

\* re.search(r"/explore/[0-9a-fA-F]{10,}", url)
HasNoteId(url) ==
    \E i \in 1..Len(url) :
        /\ MatchAt(url, ExplorePath \o <<"/">>, i)
        /\ i + Len(ExplorePath) + NoteIdMin <= Len(url)
        /\ \A k \in 1..NoteIdMin : IsHex(url[i + Len(ExplorePath) + k])

\* _looks_like_note_url of the explore scraper
LooksLikeNoteUrl(url) ==
    /\ Truthy(url)
    /\ ~StartsWith(url, XHS_BASE_URL \o ExplorePath \o <<"?">>)
    /\ HasNoteId(url)

\* re.search(r'(\d+(?:<fen zhong>|<xiao shi>|<tian>)<qian>|<zuo tian>|<qian tian>)', line)
HasRelativeTime(line) ==
    \/ \E j \in 1..Len(line) :
          /\ IsDigit(line[j])
          /\ \/ MatchAt(line, <<"fen1", "zhong", "qian2">>, j + 1)
             \/ MatchAt(line, <<"xiao", "shi", "qian2">>, j + 1)
             \/ MatchAt(line, <<"tian", "qian2">>, j + 1)
    \/ Contains(line, <<"zuo2", "tian">>)
    \/ Contains(line, <<"qian2", "tian">>)

\* n digits from position j on
DigitsAt(line, j, n) == j >= 1 /\ j + n - 1 <= Len(line) /\ \A k \in 0..(n - 1) : IsDigit(line[j + k])

\* the time-token test of extract_cards: the relative forms, \d{2}-\d{2} or
\* \d{4}-\d{2}-\d{2}
HasTimeToken(line) ==
    \/ HasRelativeTime(line)
    \/ \E j \in 1..Len(line) :
          DigitsAt(line, j, 2) /\ MatchAt(line, <<"-">>, j + 2) /\ DigitsAt(line, j + 3, 2)
    \/ \E j \in 1..Len(line) :
          /\ DigitsAt(line, j, 4) /\ MatchAt(line, <<"-">>, j + 4)
          /\ DigitsAt(line, j + 5, 2) /\ MatchAt(line, <<"-">>, j + 7)
          /\ DigitsAt(line, j + 8, 2)

\* the like-token test of extract_cards:
\* (re.match(r'^\d+$') or line == <zan> or re.match(r'^\d+<wan>$')) and len(line) < 10
LikeLineMax == 10

\* Mutant: a like line of any length.
IsLikeLine_AnyLength(line) ==
    \/ line # <<>> /\ \A k \in 1..Len(line) : IsDigit(line[k])
    \/ line = <<"zan">>
    \/ /\ Len(line) >= 2
       /\ line[Len(line)] = "wan"
       /\ \A k \in 1..(Len(line) - 1) : IsDigit(line[k])

IsLikeLine(line) ==
    /\ \/ line # <<>> /\ \A k \in 1..Len(line) : IsDigit(line[k])
       \/ line = <<"zan">>
       \/ /\ Len(line) >= 2
          /\ line[Len(line)] = "wan"
          /\ \A k \in 1..(Len(line) - 1) : IsDigit(line[k])
    /\ Len(line) < LikeLineMax

\* the greatest index of S, 0 for the empty set (a scan from the end)
LastIn(S) == IF S = {} THEN 0 ELSE CHOOSE i \in S : \A j \in S : j <= i

\* a pattern of _parse_publish_time_from_text matched at position i of text:
\* the length of the match, 0 if there is none at i
RelativeAt(text, i, unit) ==
    IF DigitRun(text, i) > 0 /\ MatchAt(text, unit, i + DigitRun(text, i))
    THEN DigitRun(text, i) + Len(unit)
    ELSE 0

\* \d{1,2} at j, the longer first, such that next holds after it: its length
OneOrTwoDigits(text, j, After(_)) ==
    IF DigitsAt(text, j, 2) /\ After(j + 2) THEN 2
    ELSE IF DigitsAt(text, j, 1) /\ After(j + 1) THEN 1
    ELSE 0

\* (<zuo tian>\s*\d{1,2}:\d{2}) and the same for <qian tian>
ClockAt(text, i, day) ==
    LET j == i + Len(day) + SpaceRun(text, i + Len(day))
        h == OneOrTwoDigits(text, j, LAMBDA k : MatchAt(text, <<":">>, k) /\ DigitsAt(text, k + 1, 2))
    IN  IF MatchAt(text, day, i) /\ h > 0 THEN (j - i) + h + 3 ELSE 0

\* (\d{1,2}-\d{1,2})
MonthDayAt(text, i) ==
    LET a == OneOrTwoDigits(text, i, LAMBDA k : MatchAt(text, <<"-">>, k) /\ DigitsAt(text, k + 1, 1))
        b == IF DigitsAt(text, i + a + 1, 2) THEN 2 ELSE 1
    IN  IF a > 0 THEN a + 1 + b ELSE 0

\* (\d{4}-\d{1,2}-\d{1,2})
FullDateAt(text, i) ==
    LET m == OneOrTwoDigits(text, i + 5, LAMBDA k : MatchAt(text, <<"-">>, k) /\ DigitsAt(text, k + 1, 1))
        d == IF DigitsAt(text, i + 5 + m + 1, 2) THEN 2 ELSE 1
    IN  IF DigitsAt(text, i, 4) /\ MatchAt(text, <<"-">>, i + 4) /\ m > 0
        THEN 5 + m + 1 + d ELSE 0

\* the patterns of _parse_publish_time_from_text, in the order tried
TimePatternAt(p, text, i) ==
    CASE p = 1 -> RelativeAt(text, i, <<"fen1", "zhong", "qian2">>)
      [] p = 2 -> RelativeAt(text, i, <<"xiao", "shi", "qian2">>)
      [] p = 3 -> ClockAt(text, i, <<"zuo2", "tian">>)
      [] p = 4 -> ClockAt(text, i, <<"qian2", "tian">>)
      [] p = 5 -> MonthDayAt(text, i)
      [] p = 6 -> FullDateAt(text, i)
      [] p = 7 -> RelativeAt(text, i, <<"tian", "qian2">>)

TimePatterns == 1..7

\* for each position of text, the length of the match of pattern p there
TimeLens(p, text) == [k \in 1..Len(text) |-> TimePatternAt(p, text, k)]

\* re.search: the text of the leftmost match, None without one; lens gives
\* the length of the match at each position
Leftmost(text, lens) ==
    IF \A k \in 1..Len(lens) : lens[k] = 0 THEN None
    ELSE SubSeq(text, FirstIn({k \in 1..Len(lens) : lens[k] > 0}),
                FirstIn({k \in 1..Len(lens) : lens[k] > 0})
                  + lens[FirstIn({k \in 1..Len(lens) : lens[k] > 0})] - 1)

\* the first of ms that is not None
FirstMatch(ms) ==
    IF \A p \in 1..Len(ms) : ms[p] = None THEN None
    ELSE ms[FirstIn({p \in 1..Len(ms) : ms[p] # None})]

\* _parse_publish_time_from_text: group 1 of the leftmost match of the first
\* pattern that matches anywhere
ParsePublishTimeFromText(text) ==
    IF ~Truthy(text) THEN None
    ELSE FirstMatch([p \in TimePatterns |-> Leftmost(text, TimeLens(p, text))])

\* the texts that mark a container as a login wall, footer or navigation block
Denylist ==
    { <<"shou", "ji1", "hao", "deng", "lu">>,
      <<"sao", "ma">>,
      <<"deng", "lu", "hou", "tui", "jian">>,
      <<"yong", "hu", "xie", "yi">>,
      <<"yin", "si1", "zheng", "ce">>,
      <<"chong", "xin", "fa", "song">>,
      <<"hu4", "I", "C", "P", "bei">>,
      <<"xing", "yin2", "xin4", "xi", "ke", "ji4">>,
      <<"zeng", "zhi", "dian", "xin4", "ye", "wu">>,
      <<"chuang", "zuo", "zhong1", "xin1">>,
      <<"ye", "wu", "he", "zuo">>,
      <<"ge", "xing4", "hua", "tui", "jian", "suan", "fa3">> }

IsDenied(text) == \E k \in Denylist : Contains(text, k)

\* The positional parse of a container's text (steps A to D of extract_cards).
\* Indices are those of the code: 0-based, -1 for "not found".
\* Mutant: the scan for the time line runs from the first line on.
TimeIdx_First(lines) ==
    IF \A i \in 1..Len(lines) : ~HasTimeToken(lines[i]) THEN -1
    ELSE FirstIn({i \in 1..Len(lines) : HasTimeToken(lines[i])}) - 1

TimeIdx(lines) == LastIn({i \in 1..Len(lines) : HasTimeToken(lines[i])}) - 1

LikeIdx(lines, time_idx) ==
    LastIn({i \in 1..Len(lines) : i - 1 # time_idx /\ IsLikeLine(lines[i])}) - 1

\* steps C and D: the author and the title for the time line at index t
\* Mutant: without a time line the last line is taken as the author.
AuthorOf_LastLine(lines, t) ==
    IF t > 0 /\ ~HasRelativeTime(lines[t]) THEN lines[t]
    ELSE IF t = -1 /\ Len(lines) >= 2 THEN lines[Len(lines)]
    ELSE None

AuthorOf(lines, t) ==
    IF t > 0 /\ ~HasRelativeTime(lines[t]) THEN lines[t]
    ELSE IF t = -1 /\ Len(lines) >= 2 THEN lines[Len(lines) - 1]
    ELSE None

\* Mutant: only the first line becomes the title.
TitleOf_FirstLine(lines, t) ==
    IF t > 0 /\ ~HasRelativeTime(lines[t])
    THEN (IF t - 1 > 0 THEN lines[1] ELSE None)
    ELSE IF t = -1 /\ Len(lines) >= 2 THEN Join(SubSeq(lines, 1, Len(lines) - 2), <<" ">>)
    ELSE None

TitleOf(lines, t) ==
    IF t > 0 /\ ~HasRelativeTime(lines[t])
    THEN (IF t - 1 > 0 THEN Join(SubSeq(lines, 1, t - 1), <<" ">>) ELSE None)
    ELSE IF t = -1 /\ Len(lines) >= 2 THEN Join(SubSeq(lines, 1, Len(lines) - 2), <<" ">>)
    ELSE None

LineOrNone(lines, idx) == IF idx >= 0 THEN lines[idx + 1] ELSE None

ParseAt(lines, t) ==
    [publish_time |-> LineOrNone(lines, t),
     like_text    |-> LineOrNone(lines, LikeIdx(lines, t)),
     author       |-> AuthorOf(lines, t),
     title        |-> TitleOf(lines, t)]

ParseLines(lines) == ParseAt(lines, TimeIdx(lines))

PositionalParse(raw_text) == ParseLines(Lines(raw_text))

NoParse == [publish_time |-> None, like_text |-> None, author |-> None, title |-> None]

DataImage == <<"d", "a", "t", "a", ":", "i", "m", "a", "g", "e">>

\* A page is a sequence of elements in document order.  An element is
\* [tag, anchors, text, img, cover]: tag is "note-item" (section.note-item),
\* "section" (an article or a section of another class), "div" or "a" (an
\* anchor outside every container); anchors are the a[href^='/explore/']
\* inside it, each [href, text]; text is its inner_text(); img is the src or
\* data-src of its first img, None without one; cover is the url in the
\* style of its first .cover, None without one.
Select(page, tags) == SelectSeq(page, LAMBDA el : el.tag \in tags)

\* page.locator("section.note-item"), else "article, section", else
\* "div:has(a[href^='/explore/'])"
Containers(page) ==
    IF Select(page, {"note-item"}) # <<>> THEN Select(page, {"note-item"})
    ELSE IF Select(page, {"section"}) # <<>> THEN Select(page, {"section"})
    ELSE SelectSeq(page, LAMBDA el : el.tag = "div" /\ el.anchors # <<>>)

MaxContainers == 300

MaxAnchors == 500

MinStructural == 8

\* s[:n]
Firsts(s, n) == SubSeq(s, 1, Min2(Len(s), n))

\* img_url after the .cover fallback
CoverUrl(c, img) ==
    IF Truthy(img) THEN img ELSE IF c.cover # None THEN c.cover ELSE img

\* the card appended for a container with the positional parse pp
ParsedCard(c, keyword, href, text, pp) ==
    [ExploreCard(0, keyword, href, pp.title, pp.author, pp.like_text,
                 ParseLikeCount(pp.like_text),
                 IF ~Truthy(pp.publish_time) /\ Truthy(c.text)
                 THEN ParsePublishTimeFromText(c.text)
                 ELSE pp.publish_time,
                 text)
       EXCEPT !.cover_url =
           CoverUrl(c, IF Truthy(c.img) /\ StartsWith(c.img, DataImage) THEN None ELSE c.img)]

ContainerCard(c, keyword, href, text) ==
    IF ~LooksLikeNoteUrl(href) THEN <<>>
    ELSE IF Truthy(text) /\ IsDenied(text) THEN <<>>
    ELSE << ParsedCard(c, keyword, href, text,
                   IF Truthy(c.text) THEN PositionalParse(c.text) ELSE NoParse) >>

\* the body of the loop over the containers: the cards it appends for c
ContainerCards(c, keyword) ==
    IF c.anchors = <<>> THEN <<>>
    ELSE ContainerCard(c, keyword, NormalizeUrl(c.anchors[1].href),
                       IF Truthy(c.text) THEN Strip(c.text) ELSE None)

\* page.locator('a[href^="/explore/"]'): every such anchor in document order
RECURSIVE Anchors(_)
Anchors(page) ==
    IF page = <<>> THEN <<>> ELSE Head(page).anchors \o Anchors(Tail(page))

AnchorCard(keyword, href, text) ==
    IF ~LooksLikeNoteUrl(href) THEN <<>>
    ELSE << ExploreCard(0, keyword, href, text, None, None, NoInt,
                        ParsePublishTimeFromText(text), text) >>

\* the body of the fallback loop over the anchors
AnchorCards(a, keyword) ==
    AnchorCard(keyword, NormalizeUrl(a.href),
               IF Strip(a.text) = <<>> THEN None ELSE Strip(a.text))

\* the cards of the loop over the containers
StructuralCards(cs, keyword) ==
    Concat([i \in 1..Len(cs) |-> ContainerCards(cs[i], keyword)])

\* the cards of the loop over the anchors
ScannedCards(as, keyword) ==
    Concat([i \in 1..Len(as) |-> AnchorCards(as[i], keyword)])

\* if len(cards) < 8: the anchors are scanned too
WithScan(structural, page, keyword) ==
    IF Len(structural) < MinStructural
    THEN structural \o ScannedCards(Firsts(Anchors(page), MaxAnchors), keyword)
    ELSE structural

\* the cards of both loops of extract_cards, before deduplication
FoundCards(page, keyword) ==
    WithScan(StructuralCards(Firsts(Containers(page), MaxContainers), keyword), page, keyword)

\* extract_cards(page, keyword)
ExtractCards(page, keyword) == DedupeKeepOrder(FoundCards(page, keyword))

-----------------------------------------------------------------------------
(* xhs_top_user_recent_posts.py: extract_user_hits, the like text of a post *)
(* card and extract_recent_posts                                            *)

\* The ways group 1 of (\d+(?:\.\d+)?\s*(?:<wan>|<qian>)?) can match from
\* position i: n digits, a fraction of f digits (0 for none), s spaces, a
\* unit or not (u).  e is the position after the match; rank orders the ways
\* as the regex engine tries them, the greatest first.
FracRun(t, j) == IF MatchAt(t, <<".">>, j) THEN DigitRun(t, j + 1) ELSE 0

UnitAt(t, j) == IF MatchAt(t, <<"wan">>, j) \/ MatchAt(t, <<"qian">>, j) THEN 1 ELSE 0

WaysFrom(t, n, f, a) ==
    UNION { { [e |-> a + s + u,
               rank |-> ((n * (Len(t) + 1) + f) * (Len(t) + 1) + s) * 2 + u] :
              u \in 0..UnitAt(t, a + s) } :
            s \in 0..SpaceRun(t, a) }

TokenWays(t, i) ==
    UNION { UNION { WaysFrom(t, n, f, i + n + (IF f > 0 THEN f + 1 ELSE 0)) :
                    f \in 0..FracRun(t, i + n) } :
            n \in 1..DigitRun(t, i) }

\* the end of the way of the greatest rank, 0 for no way
BestEnd(ways) ==
    IF ways = {} THEN 0
    ELSE (CHOOSE c \in ways : \A d \in ways : d.rank <= c.rank).e

\* The position after group 1 for the first way, in the engine's order, after
\* which Ok holds; 0 if the pattern does not match at i.
TokenEnd(t, i, Ok(_)) == BestEnd({c \in TokenWays(t, i) : Ok(c.e)})

\* re.search: group 1 of the leftmost match, None without one; ends gives
\* for each position the position after the group matched there, or 0
GroupOf(t, ends) ==
    IF \A i \in 1..Len(ends) : ends[i] = 0 THEN None
    ELSE SubSeq(t, FirstIn({i \in 1..Len(ends) : ends[i] > 0}),
                ends[FirstIn({i \in 1..Len(ends) : ends[i] > 0})] - 1)

\* a or b
OrElse(a, b) == IF a # None THEN a ELSE b

FansGap == 6

\* [^\n]{0,6}<fen si> after position e
FansLabelAfter(t, e) ==
    \E g \in 0..FansGap :
        /\ \A k \in 0..(g - 1) : e + k <= Len(t) /\ t[e + k] # "nl"
        /\ MatchAt(t, <<"fen", "si">>, e + g)

\* re.search(r"(\d+(?:\.\d+)?\s*(?:<wan>|<qian>)?)[^\n]{0,6}<fen si>", text): group 1
FansBeforeLabel(t) ==
    GroupOf(t, [i \in 1..Len(t) |-> TokenEnd(t, i, LAMBDA e : FansLabelAfter(t, e))])

\* the token after <fen si> and white space at position p, as ends
LabelThenToken(t, p) ==
    IF MatchAt(t, <<"fen", "si">>, p)
    THEN TokenEnd(t, p + 2 + SpaceRun(t, p + 2), LAMBDA e : TRUE)
    ELSE 0

\* group 1 of the match whose label is at position p
TokenAfterLabel(t, p, e) == SubSeq(t, p + 2 + SpaceRun(t, p + 2), e - 1)

\* re.search(r"<fen si>\s*(\d+(?:\.\d+)?\s*(?:<wan>|<qian>)?)", text): group 1
FansAfterLabelAt(t, ends) ==
    IF \A p \in 1..Len(ends) : ends[p] = 0 THEN None
    ELSE TokenAfterLabel(t, FirstIn({p \in 1..Len(ends) : ends[p] > 0}),
                         ends[FirstIn({p \in 1..Len(ends) : ends[p] > 0})])

FansAfterLabel(t) == FansAfterLabelAt(t, [p \in 1..Len(t) |-> LabelThenToken(t, p)])

\* fans_text of extract_user_hits
FansText(text) == OrElse(FansBeforeLabel(text), FansAfterLabel(text))

UserProfilePath ==
    <<"/", "u", "s", "e", "r", "/", "p", "r", "o", "f", "i", "l", "e", "/">>

\* _looks_like_profile_url
LooksLikeProfileUrl(url) == Truthy(url) /\ Contains(url, UserProfilePath)

UsernameMax == 50

MaxUserAnchors == 300

\* the hit appended for an anchor
AnchorHit(i, query, href, text, fans_text, lines) ==
    [UserHit(i, IF lines = <<>> THEN None ELSE Slice(lines[1], 0, UsernameMax),
             StripTrackingParams(href), fans_text, ParseCnNumber(fans_text),
             IF text = <<>> THEN None ELSE text)
       EXCEPT !.query = query]

HitsOf(i, query, href, text) ==
    IF ~LooksLikeProfileUrl(href) THEN <<>>
    ELSE << AnchorHit(i, query, href, text, FansText(text), Lines(text)) >>

\* The body of the loop of extract_user_hits for the anchor at position i of
\* a search page: the hits it appends.  An anchor is [href, text]: text is
\* the inner text of the card around it.
AnchorHits(a, i, query) == HitsOf(i, query, NormalizeUrl(a.href), Strip(a.text))

\* uniq: the first hit for each profile_url, hits without one dropped
UniqByProfileUrl(hits) ==
    SelectSeq([i \in 1..Len(hits) |->
                  IF /\ Truthy(hits[i].profile_url)
                     /\ \A j \in 1..(i - 1) : hits[j].profile_url # hits[i].profile_url
                  THEN hits[i] ELSE [oid |-> 0]],
              LAMBDA h : h.oid # 0)

\* the hits of the loop over the anchors
AllHits(as, query) == Concat([i \in 1..Len(as) |-> AnchorHits(as[i], i, query)])

\* extract_user_hits(page, query, limit)
ExtractUserHits(page, query, limit) ==
    UniqByProfileUrl(Firsts(AllHits(Firsts(page, MaxUserAnchors), query), Max2(limit, 1)))

\* <zan> after optional spaces at position e
ZanAfter(t, e) == MatchAt(t, <<"zan">>, e + SpaceRun(t, e))

\* The tokens of re.findall(r"\b(\d+(?:\.\d+)?\s*(?:<wan>|<qian>)?)\b", t) from
\* position pos on: the last one, last if there is none.
BoundedTokenEnd(t, i) ==
    IF WordBoundary(t, i - 1) THEN TokenEnd(t, i, LAMBDA e : WordBoundary(t, e - 1)) ELSE 0

\* the last token that starts at pos or later; ends gives for each position
\* the position after the token found there, or 0
RECURSIVE LastTokenIn(_, _, _, _)
LastTokenIn(t, ends, pos, last) ==
    IF \A i \in pos..Len(t) : ends[i] = 0 THEN last
    ELSE LastTokenIn(t, ends, ends[FirstIn({i \in pos..Len(t) : ends[i] > 0})],
                     SubSeq(t, FirstIn({i \in pos..Len(t) : ends[i] > 0}),
                            ends[FirstIn({i \in pos..Len(t) : ends[i] > 0})] - 1))

LastToken(t) == LastTokenIn(t, [i \in 1..Len(t) |-> BoundedTokenEnd(t, i)], 1, None)

\* re.search(r"(\d+(?:\.\d+)?\s*(?:<wan>|<qian>)?)\s*<zan>", t): group 1
LikeBeforeZan(t) ==
    GroupOf(t, [i \in 1..Len(t) |-> TokenEnd(t, i, LAMBDA e : ZanAfter(t, e))])

\* m.group(1).strip(), None for no match
StripOpt(x) == IF x = None THEN None ELSE Strip(x)

\* the like text that _extract_like_from_card_text finds in the stripped text
LikeTextOf(t) == StripOpt(OrElse(LikeBeforeZan(t), LastToken(t)))

LikeOf(like_text) == [like_text |-> like_text, like_count |-> ParseCnNumber(like_text)]

\* _extract_like_from_card_text(card_text): (like_text, like_count)
ExtractLikeFromCardText(card_text) ==
    IF ~Truthy(card_text) \/ Strip(card_text) = <<>>
    THEN [like_text |-> None, like_count |-> NoInt]
    ELSE LikeOf(LikeTextOf(Strip(card_text)))

\* _looks_like_note_url of the user program
UserLooksLikeNoteUrl(url) ==
    /\ Truthy(url)
    /\ Truthy(StripTrackingParams(url))
    /\ HasNoteId(StripTrackingParams(url))

\* A UserPost
UserPost(query, username, profile_url, post_url, title, like_text, like_count, raw_text) ==
    [query |-> query, username |-> username, profile_url |-> profile_url,
     post_url |-> post_url, title |-> title, like_text |-> like_text,
     like_count |-> like_count, raw_text |-> raw_text, error |-> None]

ShortCard == 10

TitleMax == 120

RawTextMax == 1200

MaxPostAnchors == 600

\* The text of the card around an anchor of a profile page.  An anchor is
\* [href, card, card2]: the inner text of its nearest section, article or div
\* ancestor, and of its second div ancestor.
CardText(a) ==
    IF Len(Strip(a.card)) < ShortCard /\ Strip(a.card2) # <<>> THEN Strip(a.card2)
    ELSE Strip(a.card)

\* title of a post from the lines of its card text
PostTitleOf(ls, user) ==
    IF ls = <<>> THEN None
    ELSE IF Slice(ls[1], 0, TitleMax) = OrEmpty(user.username) /\ Len(ls) >= 2
    THEN Slice(ls[2], 0, TitleMax)
    ELSE Slice(ls[1], 0, TitleMax)

PostTitle(card_text, user) ==
    IF card_text = <<>> THEN None ELSE PostTitleOf(Lines(card_text), user)

PostWith(card_text, like, href, query, user) ==
    UserPost(query, user.username, user.profile_url, href, PostTitle(card_text, user),
             like.like_text, like.like_count,
             IF card_text = <<>> THEN None ELSE Slice(card_text, 0, RawTextMax))

PostFrom(card_text, href, query, user) ==
    PostWith(card_text, ExtractLikeFromCardText(card_text), href, query, user)

\* the UserPost appended for an anchor whose url is href
PostOf(a, href, query, user) == PostFrom(CardText(a), href, query, user)

\* the url under which an anchor is looked up in processed
PostHref(a) == StripTrackingParams(NormalizeUrl(a.href))

\* href in processed
IsProcessed(href, processed) == href \in processed

\* the body of the loop of process_visible_cards for anchor a: posts and
\* processed after it
WithCard(st, a, href, query, user) ==
    IF ~UserLooksLikeNoteUrl(href) \/ IsProcessed(href, st.processed) THEN st
    ELSE [posts |-> Append(st.posts, PostOf(a, href, query, user)),
          processed |-> st.processed \cup {href}]

\* process_visible_cards from anchor i on; it returns as soon as an append
\* brings the posts to n
RECURSIVE ProcessVisibleCards(_, _, _, _, _, _)
RECURSIVE AfterCard(_, _, _, _, _, _, _)
AfterCard(as, i, before, st, query, user, n) ==
    IF Len(st.posts) > Len(before.posts) /\ Len(st.posts) >= n THEN st
    ELSE ProcessVisibleCards(as, i + 1, st, query, user, n)

ProcessVisibleCards(as, i, st, query, user, n) ==
    IF i > Len(as) THEN st
    ELSE AfterCard(as, i, st, WithCard(st, as[i], PostHref(as[i]), query, user), query, user, n)

\* one call of process_visible_cards on a profile page
VisibleCards(page, st, query, user, n) ==
    ProcessVisibleCards(Firsts(page, MaxPostAnchors), 1, st, query, user, n)

max_rounds == 18

\* key=lambda x: (x.fans_count or -1) of users_top10
TopKey(h) == FansKey(h)

UsersTop == 10

\* sorted(hits, key=..., reverse=True)[:10]: a stable sort, so hits of equal
\* key keep their order
UsersTop10(hits) ==
    LET place(i) == Cardinality({j \in 1..Len(hits) : TopKey(hits[j]) > TopKey(hits[i])})
                      + Cardinality({j \in 1..(i - 1) : TopKey(hits[j]) = TopKey(hits[i])}) + 1
        sorted == [p \in 1..Len(hits) |-> hits[CHOOSE i \in 1..Len(hits) : place(i) = p]]
    IN  SubSeq(sorted, 1, Min2(Len(sorted), UsersTop))

\* Mutant: the payload for no selected user names the tier and the user.
NotFoundPayload_WithTier(name, xhs_id, hits) ==
    [name |-> name, xhs_id |-> xhs_id, matched_by |-> "none", selected_user |-> None,
     users_top10 |-> hits, posts |-> <<>>]

\* the payload of main when no user was selected
NotFoundPayload(name, xhs_id, hits) ==
    [name |-> name, xhs_id |-> xhs_id, error |-> "not found", users |-> hits, posts |-> <<>>]

\* the payload of main for the selected user
FoundPayload(name, xhs_id, matched_by, selected, hits, posts) ==
    [name |-> name, xhs_id |-> xhs_id, matched_by |-> matched_by,
     selected_user |-> selected, users_top10 |-> UsersTop10(hits), posts |-> posts]

-----------------------------------------------------------------------------
(* Specification SpecScrape: one run of either program.  The explore        *)
(* scraper's main opens a page per keyword (or the explore page), extracts, *)
(* scrolls and extracts again, and hands the deduplicated cards to          *)
(* save_outputs.  The user program's main searches for the user, resolves   *)
(* it, reads the posts of its profile round by round and writes the report. *)
(* What a page shows at each step is the browser's choice: a page out of a  *)
(* pool.                                                                    *)

MaxScrolls == 1

MaxPosts == 2

\* the href of a note with a ten-digit hexadecimal id ending in d
NoteHref(d) == ExplorePath \o <<"/", "0", "0", "0", "0", "0", "0", "0", "0", "0", d>>

\* a section.note-item with one anchor
NoteItem(href, text, img) ==
    [tag |-> "note-item", anchors |-> <<[href |-> href, text |-> <<"a">>]>>,
     text |-> text, img |-> img, cover |-> None]

\* a div with one anchor
DivItem(href, text, cover) ==
    [tag |-> "div", anchors |-> <<[href |-> href, text |-> <<"b", "c">>]>>,
     text |-> text, img |-> None, cover |-> cover]

CardTextA == <<"a", "b", "nl", "c", "nl", "3", "tian", "qian2", "nl", "1", "2">>

CardTextB == <<"b", "nl", "d", "nl", "1", "wan">>

DigitChars == <<"0", "1", "2", "3", "4", "5", "6", "7">>

\* The pages the explore scraper may be shown: nothing; note items, two of
\* them for the same note under different query strings; divs only, one of
\* them a login wall, one with too short an id; as many note items as make
\* the scan over the anchors unnecessary.
PagePool ==
    { <<>>,
      << NoteItem(NoteHref("a"), CardTextA, <<"i">>),
         NoteItem(NoteHref("a") \o <<"?", "x">>, CardTextA, None),
         NoteItem(NoteHref("b"), CardTextB, DataImage) >>,
      << DivItem(NoteHref("b") \o <<"?", "y">>, CardTextB, <<"c">>),
         DivItem(NoteHref("c"), <<"sao", "ma">>, None),
         DivItem(ExplorePath \o <<"/", "0", "0", "0", "0", "0", "0", "0", "0", "0">>, CardTextA, None),
         [tag |-> "a", anchors |-> <<[href |-> NoteHref("c"), text |-> <<" ">>]>>,
          text |-> <<>>, img |-> None, cover |-> None] >>,
      [d \in 1..MinStructural |-> NoteItem(NoteHref(DigitChars[d]), CardTextB, None)] }

\* the values of the environment variable SEARCH_KEYWORDS; None: not set
EnvKeywords ==
    { None, <<",">>, <<"a">>, <<"a", ",", " ", "b">>, <<"b", ",", "b">> }

DefaultKeywords == << <<"p", "y", "t", "h", "o", "n", "you3", "chang2">> >>

\* [k.strip() for k in ks if k and k.strip()]
StripNonEmpty(ks) == SelectSeq(StripAll(ks), LAMBDA k : k # <<>>)

\* SEARCH_KEYWORDS as the module computes it from the environment
SearchKeywords(env) ==
    IF ~Truthy(env) THEN DefaultKeywords ELSE StripNonEmpty(SplitOn(env, ","))

\* keywords of main
Keywords(env) == StripNonEmpty(SearchKeywords(env))

ExploreInit ==
    /\ ex_pc = "start"
    /\ ex_keywords \in {Keywords(env) : env \in EnvKeywords}
    /\ ex_scrolls \in 0..MaxScrolls
    /\ ex_k = 1
    /\ ex_step = 0
    /\ ex_acc = <<>>
    /\ ex_all = <<>>
    /\ ex_out = <<>>
    /\ ex_rc = <<>>

\* the keyword of the pass under way: None in explore mode
PassKeyword == IF ex_keywords = <<>> THEN None ELSE ex_keywords[ex_k]

\* the number of passes: one per keyword, one in explore mode
Passes == Max2(Len(ex_keywords), 1)

\* Mutant: all_cards is handed on as collected.
FinalCards_AsCollected(all) == all

\* all_cards = _dedupe_keep_order(all_cards)
FinalCards(all) == DedupeKeepOrder(all)

\* main after an extraction that left acc in accumulated_cards with step
\* scroll steps done: the scroll loop goes on, or the pass ends and the next
\* page is opened, or the last pass ends and the cards are deduplicated and
\* saved.
AfterExtract(acc, step) ==
    IF step < ex_scrolls
    THEN /\ ex_pc' = "scrolling"
         /\ ex_acc' = acc
         /\ ex_step' = step
         /\ UNCHANGED <<ex_k, ex_all, ex_out, ex_rc>>
    ELSE IF ex_k < Passes
    THEN /\ ex_pc' = "start"
         /\ ex_all' = ex_all \o acc
         /\ ex_k' = ex_k + 1
         /\ ex_acc' = <<>>
         /\ ex_step' = 0
         /\ UNCHANGED <<ex_out, ex_rc>>
    ELSE /\ ex_pc' = "saved"
         /\ ex_all' = ex_all \o acc
         /\ ex_out' = FinalCards(ex_all \o acc)
         /\ ex_rc' = SomeInt(0)
         /\ ex_acc' = <<>>
         /\ ex_step' = step
         /\ UNCHANGED ex_k

\* page.goto of a pass and the initial extraction
OpenAndExtract ==
    /\ ex_pc = "start"
    /\ \E page \in PagePool : AfterExtract(ExtractCards(page, PassKeyword), 0)
    /\ UNCHANGED <<ex_keywords, ex_scrolls, ddVars, rsVars, nmVars, usVars, opVars>>

\* page.is_closed() after the page was opened: return 2
PageClosed ==
    /\ ex_pc = "start"
    /\ ex_pc' = "closed"
    /\ ex_rc' = SomeInt(2)
    /\ UNCHANGED <<ex_keywords, ex_scrolls, ex_k, ex_step, ex_acc, ex_all, ex_out,
                   ddVars, rsVars, nmVars, usVars, opVars>>

\* one turn of the scroll loop: scroll_page and extract_cards
ScrollAndExtract ==
    /\ ex_pc = "scrolling"
    /\ \E page \in PagePool :
          AfterExtract(ex_acc \o ExtractCards(page, PassKeyword), ex_step + 1)
    /\ UNCHANGED <<ex_keywords, ex_scrolls, ddVars, rsVars, nmVars, usVars, opVars>>

\* a Playwright Error in the scroll loop that says the page was closed:
\* SystemExit(2)
ScrollTargetClosed ==
    /\ ex_pc = "scrolling"
    /\ ex_pc' = "exit2"
    /\ UNCHANGED <<ex_keywords, ex_scrolls, ex_k, ex_step, ex_acc, ex_all, ex_out, ex_rc,
                   ddVars, rsVars, nmVars, usVars, opVars>>

\* any other Playwright Error, while opening a page or in the scroll loop:
\* it leaves main
ExploreError ==
    /\ ex_pc \in {"start", "scrolling"}
    /\ ex_pc' = "raised"
    /\ UNCHANGED <<ex_keywords, ex_scrolls, ex_k, ex_step, ex_acc, ex_all, ex_out, ex_rc,
                   ddVars, rsVars, nmVars, usVars, opVars>>

\* a user card of the search page
UserAnchor(href, text) == [href |-> href, text |-> text]

UserHref(u) == UserProfilePath \o <<u>>

\* The user search pages: nothing; three cards, two of them for one profile
\* and one showing its id; one card whose link has nothing before its "?".
UserPages ==
    { <<>>,
      << UserAnchor(UserHref("1"),
                    <<"a", "b", "nl", "xiao", "hong", "shu", "hao", "fwcolon", "9", "1", "nl",
                      "1", ".", "2", "wan", "fen", "si">>),
         UserAnchor(UserHref("2") \o <<"?", "x">>, <<"a", "nl", "3", "qian", "fen", "si">>),
         UserAnchor(UserHref("1") \o <<"?", "y">>, <<"a">>) >>,
      << UserAnchor(<<"?", "x", "=">> \o UserHref("3"), <<"a">>) >> }

\* args.name or XHS_NAME, args.xhs_id or XHS_ID as the run may be given them
NameArgs == { <<"a">>, <<" ">> }

XhsIdArgs == { <<"9", "1">>, <<" ", "A", " ">>, <<"b">>, <<"7">>, <<" ">> }

\* args.max_users
MaxUsersArgs == {1, 30}

\* a note link of a profile page
PostAnchor(href, card, card2) == [href |-> href, card |-> card, card2 |-> card2]

\* The profile pages: nothing; three links, two of them to one note; two
\* links, one to a note of the other page, one with too short an id.
ProfilePages ==
    { <<>>,
      << PostAnchor(NoteHref("a"), <<"a", "b", "nl", "c", "c", "c", "c", "c", "c", "nl", "1", "2", "zan">>, <<>>),
         PostAnchor(NoteHref("a") \o <<"?", "x">>, <<"c">>, <<"d">>),
         PostAnchor(NoteHref("b"), <<"a", "b">>, <<"a", "b", "nl", "d", "nl", "3", "qian">>) >>,
      << PostAnchor(NoteHref("b") \o <<"?", "y">>, <<>>, <<>>),
         PostAnchor(ExplorePath \o <<"/", "0", "0", "0", "0", "0", "0", "0", "0", "0">>, <<"c">>, <<>>),
         PostAnchor(NoteHref("c"), <<"c", "nl", "1", "wan">>, <<>>) >> }

UserInit ==
    /\ us_pc = "start"
    /\ us_name \in NameArgs
    /\ us_xhs_id \in XhsIdArgs
    /\ us_limit \in MaxUsersArgs
    /\ us_n \in 0..MaxPosts
    /\ us_hits = <<>>
    /\ us_res = [sel |-> 0, tier |-> "none"]
    /\ us_st = [posts |-> <<>>, processed |-> {}]
    /\ us_round = 0
    /\ us_wheel = 0
    /\ us_report = <<>>
    /\ us_rc = <<>>

\* the hit that main calls selected
Selected == CHOOSE h \in {us_hits[i] : i \in 1..Len(us_hits)} : h.oid = us_res.sel

\* name or xhs_id empty once stripped: SystemExit
RejectArgs ==
    /\ us_pc = "start"
    /\ Strip(us_name) = <<>> \/ Strip(us_xhs_id) = <<>>
    /\ us_pc' = "rejected"
    /\ UNCHANGED <<us_name, us_xhs_id, us_limit, us_n, us_hits, us_res, us_st, us_round,
                   us_wheel, us_report, us_rc, ddVars, rsVars, nmVars, exVars, opVars>>

\* main once the user is resolved: with no user selected the report is
\* written and main returns 2; hits holds matched_by as set by the resolver
Resolved(hits, res) ==
    /\ us_res' = res
    /\ us_hits' = hits
    /\ IF res.sel = 0
       THEN /\ us_report' = <<NotFoundPayload(us_name', us_xhs_id', hits)>>
            /\ us_rc' = SomeInt(2)
            /\ us_pc' = "notfound"
       ELSE /\ us_pc' = "profile"
            /\ UNCHANGED <<us_report, us_rc>>

PickedFrom(hits, res) == Resolved(SetMatchedBy(hits, res), res)

PickFrom(hits) == PickedFrom(hits, PickUserByXhsId(hits, us_xhs_id'))

\* main up to the choice of the user: the search page is read and the user
\* resolved
SearchAndPick ==
    /\ us_pc = "start"
    /\ Strip(us_name) # <<>> /\ Strip(us_xhs_id) # <<>>
    /\ us_name' = Strip(us_name)
    /\ us_xhs_id' = Strip(us_xhs_id)
    /\ \E page \in UserPages : PickFrom(ExtractUserHits(page, us_name', us_limit))
    /\ UNCHANGED <<us_limit, us_n, us_st, us_round, us_wheel, ddVars, rsVars, nmVars, exVars, opVars>>

\* posts[:n]
FirstPosts(posts, n) == SubSeq(posts, 1, Min2(Len(posts), Max2(n, 0)))

\* Mutant: the loop never leaves early.
TargetReached_Never(posts, n) == FALSE

\* if len(posts) >= n: break
TargetReached(posts, n) == Len(posts) >= n

\* extract_recent_posts after a round that left st: the loop goes on, or the
\* posts are returned and main writes the report; the page is scrolled after
\* every round that does not leave the loop by its break
AfterRound(st, user) ==
    /\ us_st' = st
    /\ us_round' = us_round + 1
    /\ us_wheel' = IF ~Truthy(user.profile_url) \/ TargetReached(st.posts, us_n)
                   THEN us_wheel ELSE us_wheel + 1
    /\ IF \/ ~Truthy(user.profile_url)
          \/ TargetReached(st.posts, us_n)
          \/ us_round + 1 = max_rounds
       THEN /\ us_report' = <<FoundPayload(us_name, us_xhs_id, us_res.tier, user,
                                           us_hits, FirstPosts(st.posts, us_n))>>
            /\ us_rc' = SomeInt(0)
            /\ us_pc' = "saved"
       ELSE UNCHANGED <<us_pc, us_report, us_rc>>

\* a round on page for user; extract_recent_posts returns at once for a user
\* without profile_url
RoundOn(page, user) ==
    AfterRound(IF Truthy(user.profile_url)
               THEN VisibleCards(page, us_st, us_name, user, us_n)
               ELSE us_st,
               user)

\* one round of extract_recent_posts on the profile page as it shows then
ProcessRound ==
    /\ us_pc = "profile"
    /\ us_round < max_rounds
    /\ \E page \in ProfilePages : RoundOn(page, Selected)
    /\ UNCHANGED <<us_name, us_xhs_id, us_limit, us_n, us_hits, us_res,
                   ddVars, rsVars, nmVars, exVars, opVars>>

\* a Playwright Error anywhere in main's try block: return 2, nothing written
UserError ==
    /\ us_pc \in {"start", "profile"}
    /\ us_pc = "start" => Strip(us_name) # <<>> /\ Strip(us_xhs_id) # <<>>
    /\ us_pc' = "failed"
    /\ us_rc' = SomeInt(2)
    /\ UNCHANGED <<us_name, us_xhs_id, us_limit, us_n, us_hits, us_res, us_st, us_round,
                   us_wheel, us_report, ddVars, rsVars, nmVars, exVars, opVars>>

ScrapeInit ==
    /\ OpsIdle
    /\ DedupIdle
    /\ ResolverIdle
    /\ NumeralIdle
    /\ \/ ExploreInit /\ UserIdle
       \/ UserInit /\ ExploreIdle

ScrapeNext ==
    \/ OpenAndExtract
    \/ PageClosed
    \/ ScrollAndExtract
    \/ ScrollTargetClosed
    \/ ExploreError
    \/ RejectArgs
    \/ SearchAndPick
    \/ ProcessRound
    \/ UserError

SpecScrape == ScrapeInit /\ [][ScrapeNext]_vars

\* The loop of extract_recent_posts is straight-line code between its waits:
\* a round that can be run is run.
SpecScrapeFair == SpecScrape /\ WF_vars(ProcessRound)

-----------------------------------------------------------------------------
(* enrich_cards_from_detail_pages *)

\* the longest content taken from the body of a detail page
ContentMax == 800

\* [-/.]
IsDateSep(text, k) == k >= 1 /\ k <= Len(text) /\ text[k] \in {"-", "/", "."}

\* (\d{4}[-/.]\d{1,2}[-/.]\d{1,2}) at position i: the length of the match
DetailDateAt(text, i) ==
    LET m == OneOrTwoDigits(text, i + 5, LAMBDA k : IsDateSep(text, k) /\ DigitsAt(text, k + 1, 1))
        d == IF DigitsAt(text, i + 5 + m + 1, 2) THEN 2 ELSE 1
    IN  IF DigitsAt(text, i, 4) /\ IsDateSep(text, i + 4) /\ m > 0
        THEN 5 + m + 1 + d ELSE 0

\* (\d+(?:\.\d+)?<wan>?) at position i, as far as it goes: its length
CountTokenLen(t, i) ==
    LET a == DigitRun(t, i)
        f == IF FracRun(t, i + a) > 0 THEN 1 + FracRun(t, i + a) ELSE 0
    IN  a + f + (IF MatchAt(t, <<"wan">>, i + a + f) THEN 1 ELSE 0)

\* \s*(?:<zan>|<dian zan>) at position e
ZanLabelAt(t, e) ==
    \/ MatchAt(t, <<"zan">>, e + SpaceRun(t, e))
    \/ MatchAt(t, <<"dian3", "zan">>, e + SpaceRun(t, e))

\* (\d+(?:\.\d+)?<wan>?)\s*(?:<zan>|<dian zan>) at position i: the length of
\* group 1, 0 without a match
CountBeforeZanAt(t, i) ==
    IF DigitRun(t, i) > 0 /\ ZanLabelAt(t, i + CountTokenLen(t, i))
    THEN CountTokenLen(t, i) ELSE 0

\* A detail page: meta is the content of meta[name="description"] and og that
\* of meta[property="og:updated_time"] (None: no attribute, or the read
\* raised); body is the text of body (None: the read raised).
DetailPage(meta, og, body) == [meta |-> meta, og |-> og, body |-> body]

\* body_text.strip().split("\n", 1)[0][:800]
FirstLine(body_text) == Slice(SplitOn(Strip(body_text), "nl")[1], 0, ContentMax)

\* content, as read from the detail page
DetailContent(d) ==
    IF Truthy(d.meta) THEN d.meta
    ELSE IF Truthy(d.body) THEN FirstLine(d.body)
    ELSE None

\* publish_time, as read from the detail page
DetailPublishTime(d) ==
    IF Truthy(d.og) THEN d.og
    ELSE IF d.body = None THEN None
    ELSE IF Leftmost(d.body, [k \in 1..Len(d.body) |-> DetailDateAt(d.body, k)]) = None
    THEN d.og
    ELSE Leftmost(d.body, [k \in 1..Len(d.body) |-> DetailDateAt(d.body, k)])

\* lc: _parse_like_count of the count found before the like label of the body
DetailLikeOf(token) == IF token = None THEN NoInt ELSE ParseLikeCount(token)

DetailLikeCount(d) ==
    IF d.body = None THEN NoInt
    ELSE DetailLikeOf(Leftmost(d.body, [k \in 1..Len(d.body) |-> CountBeforeZanAt(d.body, k)]))

\* _first_non_empty(a, b)
FirstNonEmpty(a, b) ==
    IF Truthy(a) /\ Strip(a) # <<>> THEN Strip(a)
    ELSE IF Truthy(b) /\ Strip(b) # <<>> THEN Strip(b)
    ELSE None

\* card.like_count or lc
LikeCountOr(like_count, lc) ==
    IF like_count = NoInt \/ like_count = SomeInt(0) THEN lc ELSE like_count

\* the card after the body of the loop, for the values read from its page
EnrichedWith(card, content, publish_time, lc) ==
    [card EXCEPT !.content = FirstNonEmpty(card.content, content),
                 !.publish_time = FirstNonEmpty(card.publish_time, publish_time),
                 !.like_count = IF lc # NoInt THEN LikeCountOr(card.like_count, lc) ELSE @]

Enriched(card, d) ==
    EnrichedWith(card, DetailContent(d), DetailPublishTime(d), DetailLikeCount(d))

\* the most cards the caller asks to enrich
MaxDetail == 2

\* the listing page whose cards are enriched: a card with a like count and a
\* time, one with the like count 0, one with neither
EnrichSource ==
    << NoteItem(NoteHref("a"), CardTextA, None),
       NoteItem(NoteHref("b"), <<"b", "nl", "d", "nl", "0">>, None),
       NoteItem(NoteHref("c"), <<"b", "nl", "d">>, None) >>

\* the card lists passed: what extract_cards gave for a part of that page
EnrichInputs == {ExtractCards(SubSeq(EnrichSource, a, b), None) : a \in 1..3, b \in 0..3}

MetaPool == {None, <<" ">>, <<" ", "m">>}

OgPool == {None, <<"2", "0", "2", "4">>}

BodyPool ==
    { None,
      <<" ", "nl">>,
      <<" ", "t", "nl", "2", "0", "2", "4", "/", "1", "/", "2", "3", "4", " ", "5", " ", "zan">>,
      <<"1", ".", "5", "wan", "dian3", "zan">>,
      <<"0", "zan", " ", "7", "zan">>,
      <<"t", " ", "zan", " ", "8">> }

DetailPages == {DetailPage(m, o, b) : m \in MetaPool, o \in OgPool, b \in BodyPool}

EnrichInit ==
    /\ en_pc = "loop"
    /\ en_before \in EnrichInputs
    /\ en_cards = en_before
    /\ en_limit \in 0..MaxDetail
    /\ en_idx = 0
    /\ TimeIdle
    /\ CardsIdle
    /\ SchedIdle
    /\ DedupIdle
    /\ ResolverIdle
    /\ NumeralIdle
    /\ ExploreIdle
    /\ UserIdle

\* target = cards[: max(0, limit)] if limit > 0 else []: its length
TargetLen == Min2(Len(en_cards), Max2(0, en_limit))

\* the body of the loop for a card whose page opens (a card without a url is
\* passed over), and the wait after it
EnrichVisit ==
    /\ en_pc = "loop"
    /\ en_idx < TargetLen
    /\ \E d \in DetailPages :
          en_cards' = [en_cards EXCEPT ![en_idx + 1] =
                          IF Truthy(@.url) THEN Enriched(@, d) ELSE @]
    /\ en_idx' = en_idx + 1
    /\ UNCHANGED <<en_pc, en_before, en_limit, tnVars, xcVars, scVars,
                   ddVars, rsVars, nmVars, exVars, usVars>>

\* page.goto raises: the card is reported and left as it is
EnrichVisitFailed ==
    /\ en_pc = "loop"
    /\ en_idx < TargetLen
    /\ Truthy(en_cards[en_idx + 1].url)
    /\ en_idx' = en_idx + 1
    /\ UNCHANGED <<en_pc, en_before, en_cards, en_limit, tnVars, xcVars, scVars,
                   ddVars, rsVars, nmVars, exVars, usVars>>

\* return cards: with no target at once, else after the last card of target
EnrichReturn ==
    /\ en_pc = "loop"
    /\ en_idx >= TargetLen
    /\ en_pc' = "returned"
    /\ UNCHANGED <<en_before, en_cards, en_limit, en_idx, tnVars, xcVars, scVars,
                   ddVars, rsVars, nmVars, exVars, usVars>>

EnrichNext == EnrichVisit \/ EnrichVisitFailed \/ EnrichReturn

SpecEnrich == EnrichInit /\ [][EnrichNext]_vars

-----------------------------------------------------------------------------
(* _parse_publish_time_from_text on its own *)

\* the most tokens in a text passed to it
MaxTokens == 2

\* one token for each pattern, a word and a number
TimeTokens ==
    << <<"5", "fen1", "zhong", "qian2">>,
       <<"2", "xiao", "shi", "qian2">>,
       <<"3", "tian", "qian2">>,
       <<"zuo2", "tian", " ", "1", "0", ":", "2", "0">>,
       <<"qian2", "tian", "9", ":", "0", "5">>,
       <<"1", "2", "-", "0", "3">>,
       <<"2", "0", "2", "4", "-", "0", "3", "-", "0", "1">>,
       <<"a", "b">>,
       <<"7">> >>

\* the texts passed: None, and up to MaxTokens tokens joined by spaces
TimeTexts ==
    {None} \cup
    {Join([i \in 1..Len(f) |-> TimeTokens[f[i]]], <<" ">>) :
        f \in UNION {[1..k -> 1..Len(TimeTokens)] : k \in 0..MaxTokens}}

TimeInit ==
    /\ tn_pc = "start"
    /\ tn_text \in TimeTexts
    /\ tn_out = None
    /\ EnrichIdle
    /\ CardsIdle
    /\ SchedIdle
    /\ DedupIdle
    /\ ResolverIdle
    /\ NumeralIdle
    /\ ExploreIdle
    /\ UserIdle

CallParsePublishTime ==
    /\ tn_pc = "start"
    /\ tn_out' = ParsePublishTimeFromText(tn_text)
    /\ tn_pc' = "done"
    /\ UNCHANGED <<tn_text, enVars, xcVars, scVars, ddVars, rsVars, nmVars, exVars, usVars>>

TimeNext == CallParsePublishTime

SpecTime == TimeInit /\ [][TimeNext]_vars

-----------------------------------------------------------------------------
(* extract_cards on its own, with a read that raises *)

\* The reads of a container that can raise: "link" (the anchor's count or
\* href: the except of the loop body), "text" (inner_text(timeout=800): text
\* is None), "raw" (the second inner_text(): raw_text is ""), "img" (the img
\* locator or its attributes) and "cover" (the .cover locator or its style).
ContainerFaults == {"link", "text", "raw", "img", "cover"}

\* The reads of an anchor of the fallback loop that can raise: "href" (the
\* except of the loop body) and "text" (text is None).
AnchorFaults == {"href", "text"}

NoFault == [where |-> "none", at |-> 0, kind |-> "none"]

\* the single reads that may raise on a page
FaultsOf(page) ==
    {NoFault}
    \cup {[where |-> "container", at |-> i, kind |-> k] :
             i \in 1..Len(Firsts(Containers(page), MaxContainers)), k \in ContainerFaults}
    \cup {[where |-> "anchor", at |-> i, kind |-> k] :
             i \in 1..Len(Firsts(Anchors(page), MaxAnchors)), k \in AnchorFaults}

\* Mutant: any read that raises makes the loop pass the container over.
FaultyContainerCard_Skip(c, keyword, kind) == <<>>

\* the body of the loop over the containers for a container with an anchor,
\* one of whose reads raises
FaultyContainerCard(c, keyword, kind) ==
    CASE kind = "link"  -> <<>>
      [] kind = "text"  -> ContainerCard(c, keyword, NormalizeUrl(c.anchors[1].href), None)
      [] kind = "raw"   -> ContainerCard([c EXCEPT !.text = <<>>], keyword,
                                         NormalizeUrl(c.anchors[1].href),
                                         IF Truthy(c.text) THEN Strip(c.text) ELSE None)
      [] kind = "img"   -> ContainerCards([c EXCEPT !.img = None], keyword)
      [] kind = "cover" -> ContainerCards([c EXCEPT !.cover = None], keyword)

FaultyContainerCards(c, keyword, kind) ==
    IF c.anchors = <<>> THEN <<>> ELSE FaultyContainerCard(c, keyword, kind)

\* the body of the fallback loop for an anchor one of whose reads raises
FaultyAnchorCards(a, keyword, kind) ==
    IF kind = "href" THEN <<>> ELSE AnchorCard(keyword, NormalizeUrl(a.href), None)

\* the cards of the loop over the containers under a fault
StructuralUnder(cs, keyword, fault) ==
    Concat([i \in 1..Len(cs) |->
               IF fault.where = "container" /\ fault.at = i
               THEN FaultyContainerCards(cs[i], keyword, fault.kind)
               ELSE ContainerCards(cs[i], keyword)])

\* the cards of the loop over the anchors under a fault
ScannedUnder(as, keyword, fault) ==
    Concat([i \in 1..Len(as) |->
               IF fault.where = "anchor" /\ fault.at = i
               THEN FaultyAnchorCards(as[i], keyword, fault.kind)
               ELSE AnchorCards(as[i], keyword)])

\* Mutant: the anchors are scanned whatever the containers gave.
NeedsScan_Always(structural) == TRUE

\* if len(cards) < 8
NeedsScan(structural) == Len(structural) < MinStructural

\* a login wall whose link text names it; the listing link of a note, with
\* the note's path in its query
WallItem ==
    [tag |-> "note-item",
     anchors |-> <<[href |-> NoteHref("d"), text |-> <<"sao", "ma">>]>>,
     text |-> <<"sao", "ma", "nl", "b">>, img |-> None, cover |-> None]

QueryHref == ExplorePath \o <<"/", "x", "?", "n", "=">> \o NoteHref("e")

WallPage ==
    << NoteItem(NoteHref("a"), CardTextA, <<"i">>), WallItem, NoteItem(QueryHref, CardTextB, None) >>

\* as many note items as make the scan unnecessary, and one more anchor
FullPage ==
    [d \in 1..(MinStructural + 1) |->
        IF d <= MinStructural THEN NoteItem(NoteHref(DigitChars[d]), CardTextB, None)
        ELSE [tag |-> "a", anchors |-> <<[href |-> NoteHref("f"), text |-> <<"b">>]>>,
              text |-> <<>>, img |-> None, cover |-> None]]

\* a note item whose text is one character longer than the raw_text that
\* extract_recent_posts keeps
LongText == [i \in 1..(RawTextMax + 1) |-> "a"]

LongPage == << NoteItem(NoteHref("a"), LongText, None) >>

CardPages == PagePool \cup {WallPage, FullPage, LongPage}

CardsInit ==
    /\ xc_pc = "start"
    /\ xc_page \in CardPages
    /\ xc_fail \in FaultsOf(xc_page)
    /\ xc_struct = <<>>
    /\ xc_scan = FALSE
    /\ xc_out = <<>>
    /\ EnrichIdle
    /\ TimeIdle
    /\ SchedIdle
    /\ DedupIdle
    /\ ResolverIdle
    /\ NumeralIdle
    /\ ExploreIdle
    /\ UserIdle

\* Mutant: the cards of the anchors are put before those of the containers.
AfterContainers_ScanFirst(structural) ==
    /\ xc_struct' = structural
    /\ xc_scan' = NeedsScan(structural)
    /\ xc_out' = DedupeKeepOrder(
                    IF NeedsScan(structural)
                    THEN ScannedUnder(Firsts(Anchors(xc_page), MaxAnchors), None, xc_fail) \o structural
                    ELSE structural)

\* extract_cards from the end of the loop over the containers
AfterContainers(structural) ==
    /\ xc_struct' = structural
    /\ xc_scan' = NeedsScan(structural)
    /\ xc_out' = DedupeKeepOrder(
                    IF NeedsScan(structural)
                    THEN structural \o ScannedUnder(Firsts(Anchors(xc_page), MaxAnchors), None, xc_fail)
                    ELSE structural)

\* extract_cards(page) with the read xc_fail raising
CallExtractCards ==
    /\ xc_pc = "start"
    /\ AfterContainers(StructuralUnder(Firsts(Containers(xc_page), MaxContainers), None, xc_fail))
    /\ xc_pc' = "done"
    /\ UNCHANGED <<xc_page, xc_fail, enVars, tnVars, scVars, ddVars, rsVars, nmVars, exVars, usVars>>

CardsNext == CallExtractCards

SpecCards == CardsInit /\ [][CardsNext]_vars

-----------------------------------------------------------------------------
(* extract_cards on one container, over the texts it may show *)

\* the most lines of a container's text
MaxLines == 3

\* The lines a container may show: a word; a word to be trimmed; a relative
\* time; a month and day; a digit run; a digit run with <wan>; <zan>; a
\* digit run of ten characters; a title that holds a date; a blank line;
\* <zuo tian>.
LinePool ==
    << <<"b">>,
       <<" ", "c", " ">>,
       <<"3", "tian", "qian2">>,
       <<"1", "2", "-", "0", "3">>,
       <<"1", "2">>,
       <<"1", "wan">>,
       <<"zan">>,
       <<"0", "1", "2", "3", "4", "5", "6", "7", "8", "9">>,
       <<"a", " ", "2", "0", "2", "4", "-", "0", "3", "-", "0", "1">>,
       <<" ">>,
       <<"zuo2", "tian">> >>

\* the lines of a card of a named account: its title, its author, its time
NamedLines ==
    << <<"yi4", "yang2", "qian", "xi3", "de", "ri4", "chang3">>,
       <<"yi4", "yang2", "qian", "xi3">>,
       <<"3", "tian", "qian2">> >>

\* cards with a title of two lines: before an author and a time, before an
\* author and a like count without a time, before an author that reads as
\* a time
TitledLines ==
    { <<LinePool[1], LinePool[2], LinePool[1], LinePool[3], LinePool[5]>>,
      <<LinePool[1], LinePool[2], LinePool[5], LinePool[1]>>,
      <<LinePool[1], LinePool[2], LinePool[11], LinePool[3]>> }

LineLists ==
    {[i \in 1..Len(f) |-> LinePool[f[i]]] :
        f \in UNION {[1..k -> 1..Len(LinePool)] : k \in 0..MaxLines}}
    \cup {NamedLines} \cup TitledLines

\* a page with one section.note-item whose inner text has these lines
ParsePage(lines) == << NoteItem(NoteHref("a"), Join(lines, <<"nl">>), None) >>

ParseInit ==
    /\ xc_pc = "start"
    /\ xc_page \in {ParsePage(lines) : lines \in LineLists}
    /\ xc_fail = NoFault
    /\ xc_struct = <<>>
    /\ xc_scan = FALSE
    /\ xc_out = <<>>
    /\ EnrichIdle
    /\ TimeIdle
    /\ SchedIdle
    /\ DedupIdle
    /\ ResolverIdle
    /\ NumeralIdle
    /\ ExploreIdle
    /\ UserIdle

SpecParse == ParseInit /\ [][CardsNext]_vars

-----------------------------------------------------------------------------
(* scheduler.py: main and run_task around xiaohongshu_explore_scraper.main *)

\* the most scraper runs followed
MaxRuns == 2

\* the scheduler at the top of its loop; SEARCH_KEYWORDS and SCROLLS are set
\* when the scraper module is imported and stay as they are
SchedInit ==
    /\ sc_pc = "loop"
    /\ sc_runs = 0
    /\ sc_emails = 0
    /\ sc_last = "none"
    /\ ex_pc = "idle"
    /\ ex_keywords \in {Keywords(env) : env \in EnvKeywords}
    /\ ex_scrolls \in 0..MaxScrolls
    /\ ex_k = 0
    /\ ex_step = 0
    /\ ex_acc = <<>>
    /\ ex_all = <<>>
    /\ ex_out = <<>>
    /\ ex_rc = <<>>
    /\ EnrichIdle
    /\ TimeIdle
    /\ CardsIdle
    /\ DedupIdle
    /\ ResolverIdle
    /\ NumeralIdle
    /\ UserIdle

\* run_task(xiaohongshu_explore_scraper.main, "scraper", []): main is entered
StartScraper ==
    /\ sc_pc = "loop"
    /\ sc_runs < MaxRuns
    /\ sc_pc' = "scraper"
    /\ sc_runs' = sc_runs + 1
    /\ ex_pc' = "start"
    /\ ex_k' = 1
    /\ ex_step' = 0
    /\ ex_acc' = <<>>
    /\ ex_all' = <<>>
    /\ ex_out' = <<>>
    /\ ex_rc' = <<>>
    /\ UNCHANGED <<sc_emails, sc_last, ex_keywords, ex_scrolls,
                   enVars, tnVars, xcVars, ddVars, rsVars, nmVars, usVars>>

\* run_task: main returned 0, the task finished successfully; the email
\* sender is run next
ScraperSucceeded ==
    /\ sc_pc = "scraper"
    /\ ex_pc = "saved"
    /\ ex_rc = SomeInt(0)
    /\ sc_last' = "ok"
    /\ sc_pc' = "email"
    /\ UNCHANGED <<sc_runs, sc_emails, enVars, tnVars, xcVars,
                   ddVars, rsVars, nmVars, exVars, usVars>>

\* run_task: main returned an int other than 0, or raised an Exception:
\* False, and the scheduler skips the email
ScraperFailed ==
    /\ sc_pc = "scraper"
    /\ \/ ex_pc = "closed" /\ ex_rc # NoInt /\ ex_rc # SomeInt(0)
       \/ ex_pc = "raised"
    /\ sc_last' = "failed"
    /\ sc_pc' = "sleep"
    /\ UNCHANGED <<sc_runs, sc_emails, enVars, tnVars, xcVars,
                   ddVars, rsVars, nmVars, exVars, usVars>>

\* main raised SystemExit(2): not an Exception, so neither run_task's
\* "except Exception" nor the scheduler's "except KeyboardInterrupt" takes
\* it, and the scheduler is left
ScraperExits ==
    /\ sc_pc = "scraper"
    /\ ex_pc = "exit2"
    /\ sc_pc' = "exited"
    /\ UNCHANGED <<sc_runs, sc_emails, sc_last, enVars, tnVars, xcVars,
                   ddVars, rsVars, nmVars, exVars, usVars>>

\* run_task(send_email.send_email, "email_sender"): whatever it returns is
\* dropped
EmailDone ==
    /\ sc_pc = "email"
    /\ sc_emails' = sc_emails + 1
    /\ sc_pc' = "sleep"
    /\ UNCHANGED <<sc_runs, sc_last, enVars, tnVars, xcVars,
                   ddVars, rsVars, nmVars, exVars, usVars>>

\* time.sleep(wait_seconds) returns
Sleep ==
    /\ sc_pc = "sleep"
    /\ sc_pc' = "loop"
    /\ UNCHANGED <<sc_runs, sc_emails, sc_last, enVars, tnVars, xcVars,
                   ddVars, rsVars, nmVars, exVars, usVars>>

\* Ctrl+C: KeyboardInterrupt, wherever the scheduler is
Interrupt ==
    /\ sc_pc \in {"loop", "scraper", "email", "sleep"}
    /\ sc_pc' = "stopped"
    /\ UNCHANGED <<sc_runs, sc_emails, sc_last, enVars, tnVars, xcVars,
                   ddVars, rsVars, nmVars, exVars, usVars>>

\* the steps of the scraper's main while the scheduler runs it
ScraperStep ==
    \/ sc_pc = "scraper" /\ OpenAndExtract
    \/ sc_pc = "scraper" /\ PageClosed
    \/ sc_pc = "scraper" /\ ScrollAndExtract
    \/ sc_pc = "scraper" /\ ScrollTargetClosed
    \/ sc_pc = "scraper" /\ ExploreError

SchedNext ==
    \/ StartScraper
    \/ ScraperStep
    \/ ScraperSucceeded
    \/ ScraperFailed
    \/ ScraperExits
    \/ EmailDone
    \/ Sleep
    \/ Interrupt

SpecSched == SchedInit /\ [][SchedNext]_vars

\* the posts that extract_recent_posts returned, once main has saved them
ReturnedPosts == IF us_pc = "saved" THEN us_report[1].posts ELSE <<>>

\* no two positions of keys hold the same non-empty key
NoRepeatedKey(keys) ==
    \A i, j \in 1..Len(keys) : (i # j /\ keys[i] # <<>>) => keys[i] # keys[j]

\* C3: after any number of scroll steps and keywords, no two records of the
\* list handed to the output step have the same non-empty identity key (the
\* url up to its first "?"), and extract_recent_posts returns no two posts
\* with the same post_url.
ThmC3_OutputKeysDistinct ==
    /\ ex_pc = "saved" =>
          NoRepeatedKey([i \in 1..Len(ex_out) |-> IdentityKey(ex_out[i].url)])
    /\ \A i, j \in 1..Len(ReturnedPosts) :
          i # j => ReturnedPosts[i].post_url # ReturnedPosts[j].post_url

\* C3 happens: cards were saved after two keywords with a scroll step each,
\* and the cards collected held the same note more than once.
WitC3_RepeatsAcrossSteps ==
    /\ ex_pc = "saved"
    /\ ex_k = 2
    /\ ex_scrolls >= 1
    /\ Len(ex_out) >= 2
    /\ Len(ex_all) > Len(ex_out)

\* the values of matched_by in the code, with none for no user
TierNames == {"xhs_id", "exact", "contains", "top_fans", "none"}

\* C9 as stated: a run that selects no user writes a report, and every
\* report written carries matched_by, one of the tier names, and
\* selected_user.
CexC9_EveryReportNamesTier ==
    /\ us_pc = "notfound" => us_report # <<>>
    /\ us_report # <<>> =>
          /\ "matched_by" \in DOMAIN us_report[1]
          /\ us_report[1].matched_by \in TierNames
          /\ "selected_user" \in DOMAIN us_report[1]

\* C9: a run that selects no user does not raise: it writes a report holding
\* name, xhs_id, error, users (the candidates) and an empty posts list, with
\* no matched_by and no selected_user field, and returns 2; every report
\* written for a selected user carries matched_by, one of xhs_id, exact,
\* contains and top_fans, and that user as selected_user.
ThmC9_NotFoundReportShape ==
    /\ us_pc = "notfound" =>
          /\ us_res.sel = 0
          /\ us_rc = SomeInt(2)
          /\ us_report # <<>>
          /\ DOMAIN us_report[1] = {"name", "xhs_id", "error", "users", "posts"}
          /\ us_report[1].users = us_hits
          /\ us_report[1].posts = <<>>
    /\ us_pc = "saved" =>
          /\ us_res.sel # 0
          /\ us_report # <<>>
          /\ DOMAIN us_report[1] =
                {"name", "xhs_id", "matched_by", "selected_user", "users_top10", "posts"}
          /\ us_report[1].matched_by \in TierNames \ {"none"}
          /\ us_report[1].selected_user = Selected
          /\ us_report[1].selected_user.matched_by = us_report[1].matched_by
    /\ us_report # <<>> => us_pc \in {"notfound", "saved"}
    /\ us_pc = "profile" => us_res.sel # 0

\* C9 happens: the search gave no candidate, nothing was selected, and the
\* report was written with main returning 2.
WitC9_NothingSelected ==
    /\ us_pc = "notfound"
    /\ us_hits = <<>>
    /\ us_res.tier = "none"
    /\ us_report # <<>>
    /\ us_rc = SomeInt(2)

\* the integer that the numeral grammar gives a count text: the number times
\* the unit multiplier, truncated toward zero; NoInt for no text or no number
GrammarCount(text) ==
    IF ~Truthy(text) THEN NoInt
    ELSE IF ~NumberSearch(Strip(RemoveLabels(Strip(text)))).found THEN NoInt
    ELSE SomeInt(ExactCount(NumberSearch(Strip(RemoveLabels(Strip(text))))))

\* C11 as stated: in every record that detail-page enrichment has produced
\* or modified, like_count is null or the integer that the numeral grammar
\* gives the record's like_text; it is never non-null while like_text is
\* null or holds no number.
CexC11_CountsFollowTexts ==
    \A i \in 1..Len(en_cards) :
        \/ en_cards[i].like_count = NoInt
        \/ en_cards[i].like_count = GrammarCount(en_cards[i].like_text)

\* the order of the patterns as the claim gives it: minutes-ago, hours-ago,
\* days-ago, the two clock forms, MM-DD, YYYY-MM-DD
ClaimedOrder == <<1, 2, 7, 3, 4, 5, 6>>

\* C12 as stated: the time normalizer returns the literal match of the first
\* pattern, in the order minutes-ago, hours-ago, days-ago, yesterday's clock,
\* the clock of the day before, MM-DD, YYYY-MM-DD, that matches anywhere in
\* the text; a text with a days-ago token and an MM-DD token gives the
\* days-ago token.
CexC12_ClaimedPatternOrder ==
    (tn_pc = "done" /\ Truthy(tn_text)) =>
        tn_out = FirstMatch([p \in 1..7 |->
                     Leftmost(tn_text, TimeLens(ClaimedOrder[p], tn_text))])

\* C13 as stated: the time normalizer returns the complete token: a text
\* that is one full YYYY-MM-DD date gives that date, a text that is
\* yesterday's clock gives that text, and a text with no time token gives
\* null.
CexC13_CompleteToken ==
    tn_pc = "done" =>
        /\ tn_text \in {TimeTokens[7], TimeTokens[4]} => tn_out = tn_text
        /\ tn_text \in {TimeTokens[8], TimeTokens[9], <<>>, None} => tn_out = None

\* the containers extract_cards reads
ReadContainers == Firsts(Containers(xc_page), MaxContainers)

\* the url under which a container is recorded
RecordUrl(c) == StripTrackingParams(NormalizeUrl(c.anchors[1].href))

\* container i is the only element of the page with a link to its url
OnlyLinkTo(i) ==
    \A k \in 1..Len(xc_page) : \A n \in 1..Len(xc_page[k].anchors) :
        StripTrackingParams(NormalizeUrl(xc_page[k].anchors[n].href)) = RecordUrl(ReadContainers[i])
            => xc_page[k] = ReadContainers[i]

\* the full text of container i holds a phrase of the denylist
DeniedContainer(i) ==
    /\ ReadContainers[i].anchors # <<>>
    /\ Truthy(ReadContainers[i].text)
    /\ IsDenied(Strip(ReadContainers[i].text))

\* C14 as stated: extract_cards produces no record for a container whose
\* full text holds a phrase of the denylist, and no record it returns, from
\* either loop, has a raw_text that holds such a phrase.
CexC14_NoDeniedRecord ==
    (xc_pc = "done" /\ xc_fail = NoFault) =>
        /\ \A i \in 1..Len(ReadContainers) :
              (DeniedContainer(i) /\ OnlyLinkTo(i)) =>
                  \A j \in 1..Len(xc_out) : xc_out[j].url # RecordUrl(ReadContainers[i])
        /\ \A j \in 1..Len(xc_out) :
              ~(Truthy(xc_out[j].raw_text) /\ IsDenied(xc_out[j].raw_text))

\* C15 as stated: every record that extract_cards returns has a url of note
\* shape: it holds "/explore/" followed by at least 10 hexadecimal characters.
CexC15_NoteShapedUrls ==
    xc_pc = "done" => \A j \in 1..Len(xc_out) : HasNoteId(xc_out[j].url)

\* the fields that enrichment may fill
FilledFields == {"content", "publish_time", "like_count"}

\* C16 as stated: enrichment never changes a field that is not null: a
\* content, publish_time or like_count that was not null before
\* enrich_cards_from_detail_pages (a like_count of 0 included) has the same
\* value after it, and every other field is unchanged.
CexC16_NonNullKept ==
    /\ Len(en_cards) = Len(en_before)
    /\ \A i \in 1..Len(en_cards) :
          /\ en_before[i].content # None => en_cards[i].content = en_before[i].content
          /\ en_before[i].publish_time # None =>
                en_cards[i].publish_time = en_before[i].publish_time
          /\ en_before[i].like_count # NoInt =>
                en_cards[i].like_count = en_before[i].like_count
          /\ \A f \in DOMAIN en_cards[i] \ FilledFields : en_cards[i][f] = en_before[i][f]

\* s without its element at position i
Without(s, i) == SubSeq(s, 1, i - 1) \o SubSeq(s, i + 1, Len(s))

\* C17 as stated: a container one of whose reads fails contributes no
\* record, and the records of the container pass are those of the other
\* containers, as if the failing one were absent.
CexC17_FailingContainerSkipped ==
    (xc_pc = "done" /\ xc_fail.where = "container") =>
        xc_struct = StructuralCards(Without(ReadContainers, xc_fail.at), None)

\* the container has a link of note shape
Linked(c) == c.anchors # <<>> /\ LooksLikeNoteUrl(NormalizeUrl(c.anchors[1].href))

\* the text of the container is read and holds a phrase of the denylist
Walled(c) == Truthy(c.text) /\ IsDenied(Strip(c.text))

\* what the failing container c gave, under a fault of the given kind
OwnRecordOk(c, kind, own) ==
    /\ kind = "link" => own = <<>>
    /\ (kind # "link" /\ Linked(c) /\ (kind = "text" \/ ~Walled(c))) =>
          /\ Len(own) = 1
          /\ own[1].url = NormalizeUrl(c.anchors[1].href)
          /\ kind = "text" => own[1].raw_text = None
          /\ kind = "raw" =>
                /\ own[1].title = None /\ own[1].author = None
                /\ own[1].like_text = None /\ own[1].like_count = NoInt
                /\ own[1].publish_time = None

\* the cards of the container pass are before, then what container c gave,
\* then after
SplitsAs(before, c, kind, after) ==
    /\ Len(xc_struct) >= Len(before) + Len(after)
    /\ SubSeq(xc_struct, 1, Len(before)) = before
    /\ SubSeq(xc_struct, Len(xc_struct) - Len(after) + 1, Len(xc_struct)) = after
    /\ OwnRecordOk(c, kind, SubSeq(xc_struct, Len(before) + 1, Len(xc_struct) - Len(after)))

\* C17: when the read of a container's link fails in the container pass, the
\* container gives no record in that pass; when the read of its text, image
\* or cover fails, it still gives its record, with the fields that depend
\* on the failed read null; in both cases the records of the other
\* containers are the same as if the failing container were absent, and
\* the call goes on to its end.
ThmC17_FailedReadsHandled ==
    (xc_pc = "done" /\ xc_fail.where = "container") =>
        SplitsAs(StructuralCards(SubSeq(ReadContainers, 1, xc_fail.at - 1), None),
                 ReadContainers[xc_fail.at], xc_fail.kind,
                 StructuralCards(SubSeq(ReadContainers, xc_fail.at + 1, Len(ReadContainers)), None))

\* C17 happens: the first text read of a container between two others
\* raised, and the call returned that container's record without raw_text
\* next to the records of the others.
WitC17_TextReadFailed ==
    /\ xc_pc = "done"
    /\ xc_fail.where = "container"
    /\ xc_fail.kind = "text"
    /\ xc_fail.at > 1
    /\ xc_fail.at < Len(ReadContainers)
    /\ Len(xc_struct) >= 3
    /\ \E j \in 1..Len(xc_out) :
          /\ xc_out[j].raw_text = None
          /\ xc_out[j].title # None
          /\ xc_out[j].url = RecordUrl(ReadContainers[xc_fail.at])

\* C18: extract_cards scans the anchors exactly when the container pass
\* gave fewer than 8 records; with 8 or more the result is the deduplicated
\* records of the container pass and nothing else, and with fewer every
\* readable anchor of note shape has a record in the result.
ThmC18_FallbackOnUnderflow ==
    xc_pc = "done" =>
        /\ xc_scan <=> Len(xc_struct) < 8
        /\ Len(xc_struct) >= 8 => xc_out = DedupeKeepOrder(xc_struct)
        /\ Len(xc_struct) < 8 =>
              \A n \in 1..Len(Anchors(xc_page)) :
                  ( /\ LooksLikeNoteUrl(NormalizeUrl(Anchors(xc_page)[n].href))
                    /\ ~(xc_fail.where = "anchor" /\ xc_fail.at = n /\ xc_fail.kind = "href") )
                  => \E j \in 1..Len(xc_out) :
                        xc_out[j].url =
                            StripTrackingParams(NormalizeUrl(Anchors(xc_page)[n].href))

\* C18 happens: the container pass gave 8 records on a page with a ninth
\* note link outside the containers, and the result holds the 8.
WitC18_NoScanAtMinimum ==
    /\ xc_pc = "done"
    /\ Len(xc_struct) = 8
    /\ Len(Anchors(xc_page)) = 9
    /\ Len(xc_out) = 8
    /\ ~xc_scan

\* C19: the scan loop of extract_recent_posts always ends: it runs at most
\* 18 rounds, scrolls at most once a round and never after a round that
\* left n posts collected, returns at most n posts, and a run that has
\* reached the profile page gets to its end.
ThmC19_ScanLoopTerminates ==
    /\ [](us_round <= 18 /\ us_wheel <= us_round)
    /\ [](us_pc = "saved" => Len(ReturnedPosts) <= us_n)
    /\ [][Len(us_st'.posts) >= us_n => us_wheel' = us_wheel]_vars
    /\ (us_pc = "profile") ~> (us_pc \in {"saved", "failed"})

\* C19 happens: the target was never reached, and the loop ended after 18
\* rounds with fewer than n posts.
WitC19_RoundsExhausted ==
    /\ us_pc = "saved"
    /\ us_round = 18
    /\ us_wheel = 18
    /\ Len(ReturnedPosts) < us_n

\* the run of the scraper that the scheduler follows has failed
RunFailed == ex_pc \in {"closed", "raised", "exit2"}

\* C20 as stated: no failure of a scraper run ends the scheduler: when the
\* run returns a code other than 0, raises an exception or raises the
\* SystemExit of a closed browser window, the scheduler skips the email and
\* goes to its wait; only a user interrupt stops the loop.
CexC20_FailuresRetried ==
    /\ [](sc_pc \in {"idle", "loop", "scraper", "email", "sleep", "stopped"})
    /\ [][(sc_pc = "scraper" /\ RunFailed /\ sc_pc' \notin {"scraper", "stopped"})
             => (sc_pc' = "sleep" /\ sc_emails' = sc_emails)]_vars

\* the run of the scraper that the scheduler follows has returned 0
RunSucceeded == ex_pc = "saved" /\ ex_rc = SomeInt(0)

\* the scheduler takes its own next step after the run of the scraper ended
AfterRun == sc_pc = "scraper" /\ sc_pc' \notin {"scraper", "stopped"}

\* C21 as stated: in every iteration the email step is executed exactly
\* when the scraper run of that iteration returned 0 without raising, and
\* only after that run ended; the wait before the next run follows both a
\* successful and a failed run, and a failed run never triggers an email.
CexC21_EmailIffSuccessThenWait ==
    /\ [][sc_emails' # sc_emails => (sc_pc = "email" /\ RunSucceeded)]_vars
    /\ [][(AfterRun /\ RunSucceeded) => sc_pc' = "email"]_vars
    /\ [][(AfterRun /\ ~RunSucceeded)
             => (sc_pc' = "sleep" /\ sc_emails' = sc_emails)]_vars
    /\ [][(sc_pc = "email" /\ sc_pc' # "stopped")
             => (sc_pc' = "sleep" /\ sc_emails' = sc_emails + 1)]_vars
    /\ [][sc_pc' = "loop" => sc_pc = "sleep"]_vars

\* C22 as stated: the raw_text of every record is the container's text cut
\* to a fixed length: no record of extract_cards and no post of
\* extract_recent_posts has a raw_text longer than that bound, however long
\* the text of its container is.
CexC22_RawTextBounded ==
    /\ \A j \in 1..Len(xc_out) : Len(xc_out[j].raw_text) <= RawTextMax
    /\ \A j \in 1..Len(ReturnedPosts) : Len(ReturnedPosts[j].raw_text) <= RawTextMax

\* the non-empty trimmed lines of the text of the one container of the page
ShownLines == Lines(xc_page[1].text)

\* the indices of the lines that match the time-token pattern
TimeLines == {i \in 1..Len(ShownLines) : HasTimeToken(ShownLines[i])}

\* the record extract_cards returned for the container
TheRecord == xc_out[1]

\* C23: the time line is the matching line of greatest index, and the whole
\* of that line is the record's publish_time; of several matching lines the
\* last in line order is taken.
ThmC23_LastTimeLineTaken ==
    (xc_pc = "done" /\ TimeLines # {}) =>
        /\ Len(xc_out) = 1
        /\ \E t \in TimeLines :
              /\ \A j \in TimeLines : j <= t
              /\ TheRecord.publish_time = ShownLines[t]

\* a title that holds a date comes before the time line, and the time line
\* is the one recorded
WitC23_DateInTitleThenTime ==
    /\ xc_pc = "done"
    /\ Len(ShownLines) = 3
    /\ TimeLines = {1, 3}
    /\ ShownLines[1] # ShownLines[3]
    /\ TheRecord.publish_time = ShownLines[3]

\* the 1-based index of the time line, 0 without one
TimeLineAt == LastIn(TimeLines)

\* the line before the time line passes the test of step C
AuthorAccepted == ~HasRelativeTime(ShownLines[TimeLineAt - 1])

\* C24: with a time line that is not the first line and the line before it
\* accepted as author, author is that line and, when the author line is not
\* the first, title is the lines before it joined with single spaces; the
\* lines of the named account give its author, title and publish_time; with
\* the time line first, author and title are null.
ThmC24_AuthorAndTitleBeforeTime ==
    xc_pc = "done" =>
        /\ (TimeLineAt > 1 /\ AuthorAccepted) =>
              /\ TheRecord.author = ShownLines[TimeLineAt - 1]
              /\ TimeLineAt > 2 =>
                    TheRecord.title = Join(SubSeq(ShownLines, 1, TimeLineAt - 2), <<" ">>)
        /\ xc_page = ParsePage(NamedLines) =>
              /\ TheRecord.author = NamedLines[2]
              /\ TheRecord.title = NamedLines[1]
              /\ TheRecord.publish_time = NamedLines[3]
        /\ TimeLineAt = 1 => (TheRecord.author = None /\ TheRecord.title = None)

\* a title of two lines, joined with one space, before the author and the
\* time line
WitC24_TwoLineTitle ==
    /\ xc_pc = "done"
    /\ TimeLineAt = 4
    /\ AuthorAccepted
    /\ TheRecord.author = <<"b">>
    /\ TheRecord.title = <<"b", " ", "c">>

\* C25 as stated: the author of a record is never a line that looks like a
\* time token: when the line before the time line matches the pattern by
\* which the time line is found (relative times, <zuo tian>, <qian tian>,
\* a month and day or a full date), it is rejected, and author and title
\* are left null.
CexC25_AuthorNeverTimeLike ==
    xc_pc = "done" =>
        /\ ~(Truthy(TheRecord.author) /\ HasTimeToken(TheRecord.author))
        /\ (TimeLineAt > 1 /\ HasTimeToken(ShownLines[TimeLineAt - 1])) =>
              (TheRecord.author = None /\ TheRecord.title = None)

\* a digit run of length n at the start of a line
DigitPrefix(line, n) == n >= 1 /\ n <= Len(line) /\ \A k \in 1..n : IsDigit(line[k])

\* a line shorter than 10 characters that is a digit run, <zan>, or a digit
\* run followed by <wan>
LikeShaped(line) ==
    /\ Len(line) < 10
    /\ \/ DigitPrefix(line, Len(line))
       \/ line = <<"zan">>
       \/ DigitPrefix(line, Len(line) - 1) /\ line[Len(line)] = "wan"

\* the indices of the like-shaped lines other than the time line
LikeLines == {i \in 1..Len(ShownLines) : i # TimeLineAt /\ LikeShaped(ShownLines[i])}

\* C26: like_text is the like-shaped line of greatest index other than the
\* time line, so never the line taken as publish_time, and it is null when
\* there is no such line.
ThmC26_LastLikeLineTaken ==
    xc_pc = "done" =>
        /\ LikeLines = {} => TheRecord.like_text = None
        /\ LikeLines # {} => TheRecord.like_text = ShownLines[LastIn(LikeLines)]
        /\ (TimeLineAt > 0 /\ Truthy(TheRecord.like_text)) =>
              TheRecord.like_text # ShownLines[TimeLineAt]

\* two like-shaped lines and then a digit run of ten characters: the second
\* of the three is the like_text
WitC26_TenDigitsPassedOver ==
    /\ xc_pc = "done"
    /\ Len(ShownLines) = 3
    /\ ShownLines[1] = <<"1", "2">>
    /\ Len(ShownLines[3]) = 10
    /\ DigitPrefix(ShownLines[3], 10)
    /\ TheRecord.like_text = <<"1", "wan">>

\* C27: without a time line, a container of at least two lines has its
\* second-to-last line as author and the lines before that one, joined with
\* spaces, as title; with fewer than two lines both are null.
ThmC27_FallbackAuthorAndTitle ==
    (xc_pc = "done" /\ TimeLines = {}) =>
        /\ Len(ShownLines) >= 2 =>
              /\ TheRecord.author = ShownLines[Len(ShownLines) - 1]
              /\ TheRecord.title =
                    Join(SubSeq(ShownLines, 1, Len(ShownLines) - 2), <<" ">>)
        /\ Len(ShownLines) < 2 =>
              (TheRecord.author = None /\ TheRecord.title = None)

\* four lines without a time: the third is the author, the first two are
\* the title
WitC27_FourLinesNoTime ==
    /\ xc_pc = "done"
    /\ TimeLines = {}
    /\ Len(ShownLines) = 4
    /\ TheRecord.author = ShownLines[3]
    /\ TheRecord.author # ShownLines[4]
    /\ TheRecord.title = <<"b", " ", "c">>

\* C28: pick_user_by_xhs_id returns no candidate exactly when the tier it
\* returns is none, and then the candidate list is empty or the trimmed
\* identifier is empty; the candidate it returns has the returned tier as
\* its matched_by, and the matched_by of every other candidate is as it was.
ThmC28_NoneIffNoCandidate ==
    rs_pc # "start" =>
        /\ rs_res.sel = 0 <=> rs_res.tier = "none"
        /\ rs_res.sel = 0 => (rs_hits0 = <<>> \/ Strip(rs_id) = <<>>)
        /\ rs_res.sel # 0 =>
              /\ \E i \in Cands : rs_hits0[i].oid = rs_res.sel
              /\ \A i \in Cands :
                    rs_hits[i].matched_by =
                        IF rs_hits0[i].oid = rs_res.sel THEN rs_res.tier
                        ELSE rs_hits0[i].matched_by

\* of three candidates one is returned in the contains tier, and the other
\* two keep their matched_by
WitC28_OneOfThreeMarked ==
    /\ rs_pc = "picked"
    /\ Len(rs_hits0) = 3
    /\ rs_res.tier = "contains"
    /\ Cardinality({i \in Cands : rs_hits[i].matched_by = "contains"}) = 1
    /\ Cardinality({i \in Cands : rs_hits[i].matched_by = rs_hits0[i].matched_by}) = 2

\* the cards of the loop over the anchors, before deduplication
FallbackCards == ScannedUnder(Firsts(Anchors(xc_page), MaxAnchors), None, xc_fail)

\* the first card of the loop over the containers whose url has this key
FirstStructural(key) ==
    xc_struct[FirstIn({i \in 1..Len(xc_struct) : IdentityKey(xc_struct[i].url) = key})]

\* the keys that both loops produced a card for
SharedKeys ==
    {IdentityKey(xc_struct[i].url) : i \in 1..Len(xc_struct)}
    \cap {IdentityKey(FallbackCards[k].url) : k \in 1..Len(FallbackCards)}

\* C29: when both the loop over the containers and the loop over the
\* anchors produce a card for the same url without its query, the result
\* holds one record for it, and that is the card of the containers with all
\* its fields, its url without the query; no card of the anchors takes its
\* place or changes it.
ThmC29_StructuralRecordKept ==
    (xc_pc = "done" /\ xc_scan) =>
        \A key \in SharedKeys :
            /\ Cardinality({j \in 1..Len(xc_out) : xc_out[j].url = key}) = 1
            /\ \A j \in 1..Len(xc_out) :
                  xc_out[j].url = key =>
                      xc_out[j] = [FirstStructural(key) EXCEPT !.url = key]

\* a container with an author, a like count and a cover, whose link the
\* loop over the anchors reads again: the record has the author, the like
\* count and the cover
WitC29_ParsedFieldsKept ==
    /\ xc_pc = "done"
    /\ xc_scan
    /\ xc_fail = NoFault
    /\ \E j \in 1..Len(xc_out) :
          /\ xc_out[j].url \in SharedKeys
          /\ xc_out[j].author = <<"c">>
          /\ xc_out[j].like_count = SomeInt(12)
          /\ xc_out[j].cover_url = <<"i">>

\* C30 as stated: _parse_cn_number and _parse_like_count return the same
\* result for every string, also with labels, with a "+" or with
\* whitespace between the digits and the unit.
CexC30_NormalizersAgree ==
    nm_done = {"cn", "like"} => nm_cn = nm_like

=============================================================================
